---- MODULE Spec2Model ----
(***************************************************************************)
(* The MQTT 3.1.1 client engine of src/inet/mqtt_client.c: the wire codec, *)
(* the request and response handlers, the event loop and the blocking      *)
(* application entry points, with the two unbuffered control queues and    *)
(* the byte transport between client and broker.                           *)
(*                                                                         *)
(* One loop iteration (mqtt_client_main's body) is one action, except      *)
(* where the loop task can block part-way: inside a request handler's      *)
(* queue_read of its parameter (loop_pc = "param") and inside the          *)
(* chan_write that posts a result on the outbound control queue            *)
(* (loop_pc = "post").                                                     *)
(***************************************************************************)
EXTENDS Integers, Sequences, FiniteSets, TLC

(***************************************************************************)
(* Program constants.                                                      *)
(***************************************************************************)
MQTT_CONNECT == 1
MQTT_CONNACK == 2
MQTT_PUBLISH == 3
MQTT_PUBACK == 4
MQTT_PUBREC == 5
MQTT_PUBREL == 6
MQTT_PUBCOMP == 7
MQTT_SUBSCRIBE == 8
MQTT_SUBACK == 9
MQTT_UNSUBSCRIBE == 10
MQTT_UNSUBACK == 11
MQTT_PINGREQ == 12
MQTT_PINGRESP == 13
MQTT_DISCONNECT == 14

CLEAN_SESSION == 2
WILL_FLAG == 4
WILL_QOS_1 == 8
WILL_QOS_2 == 16
PASSWORD_FLAG == 64
USER_NAME_FLAG == 128

CONNECTION_ACCEPTED == 0

CONTROL_CONNECT == 0
CONTROL_DISCONNECT == 1
CONTROL_PING == 2
CONTROL_PUBLISH == 3
CONTROL_SUBSCRIBE == 4
CONTROL_UNSUBSCRIBE == 5
CONTROL_NONE == 6

KEEP_ALIVE == 300

\* errno values the handlers return negated
EIO == 5
EINVAL == 22
EPROTO == 71
EMSGSIZE == 90

\* sizeof(topic) in handle_publish
TOPIC_BUF_SIZE == 128

(***************************************************************************)
(* Bounds of the model.                                                    *)
(***************************************************************************)
\* application tasks calling the entry points
NumTasks == 2
\* the broker sends a further frame while at most this many bytes are unread
MaxBacklog == 1
\* a transport write can fail at the n-th chan_write of a handler, n up to
MaxFailAt == 3

\* sizeof(options_p), sizeof(message_p): the parameter a request handler
\* reads from the inbound control queue is one pointer, of this many bytes
PTR_SIZE == 2

Tasks == 1..NumTasks

Byte == 0..255

(***************************************************************************)
(* Bit operations on naturals.                                             *)
(***************************************************************************)
RECURSIVE BitOr(_, _)
BitOr(a, b) ==
    IF a = 0 THEN b
    ELSE IF b = 0 THEN a
    ELSE (IF (a % 2 = 1) \/ (b % 2 = 1) THEN 1 ELSE 0)
         + 2 * BitOr(a \div 2, b \div 2)

MSB(b) == (b \div 256) % 256

LSB(b) == b % 256

(***************************************************************************)
(* The transport as a handler sees it during one loop iteration.           *)
(*   tin     bytes the broker has sent and the client has not read         *)
(*   out     bytes written to the transport output in this iteration       *)
(*   wn, wf  chan_write calls made so far; the call that fails (0: none)   *)
(*   ok      whether the latest call returned the full count               *)
(*   data    the bytes the latest chan_read returned                       *)
(*   starved a chan_read asked for more bytes than have arrived: the loop  *)
(*           task blocks in it                                             *)
(* A chan_read of the transport input blocks until its bytes have arrived  *)
(* and then returns them all.                                              *)
(***************************************************************************)
NewCtx(tin, wf) ==
    [tin |-> tin, out |-> <<>>, wn |-> 0, wf |-> wf,
     ok |-> TRUE, data |-> <<>>, starved |-> FALSE]

\* chan_write(self_p->transport.out_p, buf, size): a failing call returns a
\* short count and is taken to write nothing
ChanWrite(c, bytes) ==
    IF c.wn + 1 = c.wf
    THEN [c EXCEPT !.wn = @ + 1, !.ok = FALSE]
    ELSE [c EXCEPT !.wn = @ + 1, !.ok = TRUE, !.out = @ \o bytes]

\* chan_read(self_p->transport.in_p, buf, size)
ChanRead(c, n) ==
    IF Len(c.tin) < n
    THEN [c EXCEPT !.starved = TRUE, !.ok = FALSE, !.data = <<>>]
    ELSE [c EXCEPT !.ok = TRUE,
                   !.data = SubSeq(c.tin, 1, n),
                   !.tin = SubSeq(c.tin, n + 1, Len(c.tin))]

(***************************************************************************)
(* Wire codec.                                                             *)
(***************************************************************************)
\* the do-while of write_fixed_header: the remaining length in base 128
RECURSIVE EncodeSize(_)
EncodeSize(size) ==
    LET encoded_byte == size % 128
        rest == size \div 128
    IN IF rest > 0
       THEN <<BitOr(encoded_byte, 128)>> \o EncodeSize(rest)
       ELSE <<encoded_byte>>

\* write_fixed_header with the type left in the low nibble
write_fixed_header_unshifted(c, type, flags, size) ==
    LET buf == <<BitOr(type, flags) % 256>> \o EncodeSize(size)
        c1 == ChanWrite(c, buf)
    IN IF ~c1.ok THEN [c |-> c1, res |-> -EIO]
       ELSE [c |-> c1, res |-> 0]

\* write_fixed_header: [c, res]
write_fixed_header(c, type, flags, size) ==
    LET buf == <<BitOr(type * 16, flags) % 256>> \o EncodeSize(size)
        c1 == ChanWrite(c, buf)
    IN IF ~c1.ok THEN [c |-> c1, res |-> -EIO]
       ELSE [c |-> c1, res |-> 0]

\* the do-while of read_fixed_header: [c, res, size]
RECURSIVE DecodeSize(_, _, _)
DecodeSize(c, multiplier, size) ==
    LET c1 == ChanRead(c, 1)
    IN IF ~c1.ok THEN [c |-> c1, res |-> -EIO, size |-> size]
       ELSE LET byte == c1.data[1]
                size1 == size + (byte % 128) * multiplier
                mult1 == multiplier * 128
            IN IF mult1 > 128 * 128 * 128
               THEN [c |-> c1, res |-> -1, size |-> size1]
               ELSE IF byte >= 128
               THEN DecodeSize(c1, mult1, size1)
               ELSE [c |-> c1, res |-> 0, size |-> size1]

\* read_fixed_header: [c, res, type, flags, size]
read_fixed_header(c) ==
    LET c1 == ChanRead(c, 1)
    IN IF ~c1.ok
       THEN [c |-> c1, res |-> -EIO, type |-> 0, flags |-> 0, size |-> 0]
       ELSE LET byte == c1.data[1]
                d == DecodeSize(c1, 1, 0)
            IN [c |-> d.c, res |-> d.res, type |-> (byte \div 16) % 16,
                flags |-> byte % 16, size |-> d.size]

\* an mqtt_string_t: buf_p (null: a NULL pointer) and size
Str(bytes) == [null |-> FALSE, buf |-> bytes, size |-> Len(bytes)]

EmptyStr == [null |-> TRUE, buf |-> <<>>, size |-> 0]

\* write_mqtt_string: [c, res]
write_mqtt_string(c, s) ==
    IF s.size = 0 \/ s.null THEN [c |-> c, res |-> -EINVAL]
    ELSE IF s.size > 65535 THEN [c |-> c, res |-> -EINVAL]
    ELSE LET c1 == ChanWrite(c, <<MSB(s.size), LSB(s.size)>>)
         IN IF ~c1.ok THEN [c |-> c1, res |-> -EIO]
            ELSE LET c2 == ChanWrite(c1, SubSeq(s.buf, 1, s.size))
                 IN IF ~c2.ok THEN [c |-> c2, res |-> -EIO]
                    ELSE [c |-> c2, res |-> 0]

(***************************************************************************)
(* Request handlers.  Each takes the transport context, the client's       *)
(* message.type and state and, where it has one, the structure its         *)
(* parameter points to, and gives                                          *)
(*   [c, res, mt, st, arg]: the context, the value returned, message.type  *)
(*   and state on return, and the caller's structure on return.            *)
(***************************************************************************)
Ret(c, res, mt, st, arg) ==
    [c |-> c, res |-> res, mt |-> mt, st |-> st, arg |-> arg]

\* the all-zero default_options of handle_control_connect
ZeroOptions ==
    [client_id |-> [null |-> TRUE, buf |-> <<>>, size |-> 0],
     will |-> [topic |-> [null |-> TRUE, buf |-> <<>>, size |-> 0],
               payload |-> [null |-> TRUE, buf |-> <<>>, size |-> 0],
               qos |-> 0],
     user_name |-> [null |-> TRUE, buf |-> <<>>, size |-> 0],
     password |-> [null |-> TRUE, buf |-> <<>>, size |-> 0]]

\* FSTR("simba_mqtt")
DefaultClientId == <<115, 105, 109, 98, 97, 95, 109, 113, 116, 116>>

\* lines 264-288: payload length and connect flags
ConnectPayloadLength(o) ==
    (o.client_id.size + 2)
    + (IF o.will.topic.size > 0
       THEN (o.will.topic.size + 2) + (o.will.payload.size + 2) ELSE 0)
    + (IF o.user_name.size > 0 THEN o.user_name.size + 2 ELSE 0)
    + (IF o.password.size > 0 THEN o.password.size + 2 ELSE 0)

\* the flags with the user-name and password bits exchanged
ConnectFlags_swapped_credentials(o) ==
    LET f0 == CLEAN_SESSION
        f1 == IF o.will.topic.size > 0
              THEN BitOr(BitOr(f0, WILL_FLAG),
                         IF o.will.qos = 1 THEN WILL_QOS_1
                         ELSE IF o.will.qos = 2 THEN WILL_QOS_2 ELSE 0)
              ELSE f0
        f2 == IF o.user_name.size > 0 THEN BitOr(f1, PASSWORD_FLAG) ELSE f1
        f3 == IF o.password.size > 0 THEN BitOr(f2, USER_NAME_FLAG) ELSE f2
    IN f3

ConnectFlags(o) ==
    LET f0 == CLEAN_SESSION
        f1 == IF o.will.topic.size > 0
              THEN BitOr(BitOr(f0, WILL_FLAG),
                         IF o.will.qos = 1 THEN WILL_QOS_1
                         ELSE IF o.will.qos = 2 THEN WILL_QOS_2 ELSE 0)
              ELSE f0
        f2 == IF o.user_name.size > 0 THEN BitOr(f1, USER_NAME_FLAG) ELSE f1
        f3 == IF o.password.size > 0 THEN BitOr(f2, PASSWORD_FLAG) ELSE f2
    IN f3

\* lines 317-352: the payload strings, in order, stopping at the first error
RECURSIVE WriteStrings(_, _)
WriteStrings(c, strs) ==
    IF strs = <<>> THEN [c |-> c, res |-> 0]
    ELSE LET w == write_mqtt_string(c, Head(strs))
         IN IF w.res # 0 THEN w ELSE WriteStrings(w.c, Tail(strs))

ConnectPayload(o) ==
    <<o.client_id>>
    \o (IF o.will.topic.size > 0 THEN <<o.will.topic, o.will.payload>> ELSE <<>>)
    \o (IF o.user_name.size > 0 THEN <<o.user_name>> ELSE <<>>)
    \o (IF o.password.size > 0 THEN <<o.password>> ELSE <<>>)

\* handle_control_connect, after its queue_read of options_p
handle_control_connect(c, mt, st, options) ==
    IF (options.will.topic.size = 0) # (options.will.payload.size = 0)
    THEN Ret(c, -EINVAL, mt, st, options)
    ELSE
    LET o == IF options.client_id.size = 0
             THEN [options EXCEPT !.client_id =
                      [null |-> FALSE, buf |-> DefaultClientId,
                       size |-> Len(DefaultClientId)]]
             ELSE options
        payload_length == ConnectPayloadLength(o)
        flags == ConnectFlags(o)
        h == write_fixed_header(c, MQTT_CONNECT, 0, 12 + payload_length)
    IN IF h.res # 0 THEN Ret(h.c, h.res, mt, st, o)
       ELSE
       LET buf == <<0, 4, 77, 81, 84, 84, 4, flags % 256,
                    MSB(KEEP_ALIVE), LSB(KEEP_ALIVE),
                    MSB(payload_length), LSB(payload_length)>>
           c1 == ChanWrite(h.c, buf)
       IN IF ~c1.ok THEN Ret(c1, -EIO, mt, st, o)
          ELSE LET w == WriteStrings(c1, ConnectPayload(o))
               IN IF w.res # 0 THEN Ret(w.c, w.res, mt, st, o)
                  ELSE Ret(w.c, 0, CONTROL_CONNECT, st, o)

\* handle_control_disconnect
handle_control_disconnect(c, mt, st) ==
    LET h == write_fixed_header(c, MQTT_DISCONNECT, 0, 0)
    IN IF h.res # 0 THEN Ret(h.c, -1, mt, st, <<>>)
       ELSE Ret(h.c, 0, mt, "disconnected", <<>>)

\* handle_control_ping
handle_control_ping(c, mt, st) ==
    LET h == write_fixed_header(c, MQTT_PINGREQ, 0, 0)
    IN IF h.res # 0 THEN Ret(h.c, h.res, mt, st, <<>>)
       ELSE Ret(h.c, 0, CONTROL_PING, st, <<>>)

\* handle_control_publish, after its queue_read of message_p
handle_control_publish(c, mt, st, m) ==
    LET size == (m.topic.size + m.payload.size + 2)
                + (IF m.qos > 0 THEN 2 ELSE 0)
        h == write_fixed_header(c, MQTT_PUBLISH, m.qos * 2, size)
    IN IF h.res # 0 THEN Ret(h.c, h.res, mt, st, m)
       ELSE
       LET c1 == ChanWrite(h.c, <<0, m.topic.size % 256>>)
       IN IF ~c1.ok THEN Ret(c1, -EIO, mt, st, m)
          ELSE
          LET c2 == ChanWrite(c1, SubSeq(m.topic.buf, 1, m.topic.size))
          IN IF ~c2.ok THEN Ret(c2, -EIO, mt, st, m)
             ELSE
             LET c3 == IF m.qos > 0 THEN ChanWrite(c2, <<0, 1>>) ELSE c2
             IN IF ~c3.ok THEN Ret(c3, -EIO, mt, st, m)
                ELSE
                LET c4 == IF m.payload.size > 0
                          THEN ChanWrite(c3, SubSeq(m.payload.buf, 1,
                                                    m.payload.size))
                          ELSE c3
                IN IF ~c4.ok THEN Ret(c4, -EIO, mt, st, m)
                   ELSE Ret(c4, 0, CONTROL_PUBLISH, st, m)

\* handle_control_subscribe with a remaining length that leaves out the
\* requested QoS
handle_control_subscribe_short(c, mt, st, m) ==
    LET h == write_fixed_header(c, MQTT_SUBSCRIBE, 2, m.topic.size + 4)
    IN IF h.res # 0 THEN Ret(h.c, h.res, mt, st, m)
       ELSE
       LET c1 == ChanWrite(h.c, <<0, 1>>)
       IN IF ~c1.ok THEN Ret(c1, -EIO, mt, st, m)
          ELSE
          LET c2 == ChanWrite(c1, <<MSB(m.topic.size), LSB(m.topic.size)>>)
          IN IF ~c2.ok THEN Ret(c2, -EIO, mt, st, m)
             ELSE
             LET c3 == ChanWrite(c2, SubSeq(m.topic.buf, 1, m.topic.size))
             IN IF ~c3.ok THEN Ret(c3, -EIO, mt, st, m)
                ELSE
                LET c4 == ChanWrite(c3, <<m.qos % 256>>)
                IN IF ~c4.ok THEN Ret(c4, -EIO, mt, st, m)
                   ELSE Ret(c4, 0, CONTROL_SUBSCRIBE, st, m)

\* handle_control_subscribe, after its queue_read of message_p
handle_control_subscribe(c, mt, st, m) ==
    LET h == write_fixed_header(c, MQTT_SUBSCRIBE, 2, m.topic.size + 5)
    IN IF h.res # 0 THEN Ret(h.c, h.res, mt, st, m)
       ELSE
       LET c1 == ChanWrite(h.c, <<0, 1>>)
       IN IF ~c1.ok THEN Ret(c1, -EIO, mt, st, m)
          ELSE
          LET c2 == ChanWrite(c1, <<MSB(m.topic.size), LSB(m.topic.size)>>)
          IN IF ~c2.ok THEN Ret(c2, -EIO, mt, st, m)
             ELSE
             LET c3 == ChanWrite(c2, SubSeq(m.topic.buf, 1, m.topic.size))
             IN IF ~c3.ok THEN Ret(c3, -EIO, mt, st, m)
                ELSE
                LET c4 == ChanWrite(c3, <<m.qos % 256>>)
                IN IF ~c4.ok THEN Ret(c4, -EIO, mt, st, m)
                   ELSE Ret(c4, 0, CONTROL_SUBSCRIBE, st, m)

\* handle_control_unsubscribe, after its queue_read of message_p
handle_control_unsubscribe(c, mt, st, m) ==
    LET h == write_fixed_header(c, MQTT_UNSUBSCRIBE, 2, m.topic.size + 4)
    IN IF h.res # 0 THEN Ret(h.c, h.res, mt, st, m)
       ELSE
       LET c1 == ChanWrite(h.c, <<0, 2>>)
       IN IF ~c1.ok THEN Ret(c1, -EIO, mt, st, m)
          ELSE
          LET c2 == ChanWrite(c1, <<MSB(m.topic.size), LSB(m.topic.size)>>)
          IN IF ~c2.ok THEN Ret(c2, -EIO, mt, st, m)
             ELSE
             LET c3 == ChanWrite(c2, SubSeq(m.topic.buf, 1, m.topic.size))
             IN IF ~c3.ok THEN Ret(c3, -EIO, mt, st, m)
                ELSE Ret(c3, 0, CONTROL_UNSUBSCRIBE, st, m)

(***************************************************************************)
(* Response handlers: [c, res, mt, st].                                    *)
(***************************************************************************)
Resp(c, res, mt, st) == [c |-> c, res |-> res, mt |-> mt, st |-> st]

\* handle_response_connack without the test of the return code (line 385)
handle_response_connack_any_code(c, mt, st, size) ==
    IF mt # CONTROL_CONNECT THEN Resp(c, -1, mt, st)
    ELSE IF size # 2 THEN Resp(c, -EMSGSIZE, CONTROL_NONE, st)
    ELSE LET c1 == ChanRead(c, size)
         IN IF ~c1.ok THEN Resp(c1, -EIO, CONTROL_NONE, st)
            ELSE IF c1.data[1] # 0 THEN Resp(c1, -1, CONTROL_NONE, st)
            ELSE Resp(c1, 0, CONTROL_NONE, "connected")

\* handle_response_connack
handle_response_connack(c, mt, st, size) ==
    IF mt # CONTROL_CONNECT THEN Resp(c, -1, mt, st)
    ELSE IF size # 2 THEN Resp(c, -EMSGSIZE, CONTROL_NONE, st)
    ELSE LET c1 == ChanRead(c, size)
         IN IF ~c1.ok THEN Resp(c1, -EIO, CONTROL_NONE, st)
            ELSE IF c1.data[1] # 0 THEN Resp(c1, -1, CONTROL_NONE, st)
            ELSE IF c1.data[2] # CONNECTION_ACCEPTED
            THEN Resp(c1, -1, CONTROL_NONE, st)
            ELSE Resp(c1, 0, CONTROL_NONE, "connected")

\* handle_response_ping
handle_response_ping(c, mt, st, size) ==
    IF mt # CONTROL_PING THEN Resp(c, -1, mt, st)
    ELSE IF size # 0 THEN Resp(c, -EMSGSIZE, CONTROL_NONE, st)
    ELSE Resp(c, 0, CONTROL_NONE, st)

\* handle_response_puback
handle_response_puback(c, mt, st, size) ==
    IF mt # CONTROL_PUBLISH THEN Resp(c, -1, mt, st)
    ELSE IF size # 2 THEN Resp(c, -EMSGSIZE, CONTROL_NONE, st)
    ELSE LET c1 == ChanRead(c, size)
         IN IF ~c1.ok THEN Resp(c1, -EIO, CONTROL_NONE, st)
            ELSE IF c1.data[1] # 0 THEN Resp(c1, -1, CONTROL_NONE, st)
            ELSE IF c1.data[2] # 1 THEN Resp(c1, -1, CONTROL_NONE, st)
            ELSE Resp(c1, 0, CONTROL_NONE, st)

\* handle_response_suback without the test of the granted QoS (line 641)
handle_response_suback_any_qos(c, mt, st, size) ==
    IF mt # CONTROL_SUBSCRIBE THEN Resp(c, -1, mt, st)
    ELSE IF size # 3 THEN Resp(c, -EMSGSIZE, CONTROL_NONE, st)
    ELSE LET c1 == ChanRead(c, size)
         IN IF ~c1.ok THEN Resp(c1, -EIO, CONTROL_NONE, st)
            ELSE IF c1.data[1] # 0 THEN Resp(c1, -1, CONTROL_NONE, st)
            ELSE IF c1.data[2] # 1 THEN Resp(c1, -1, CONTROL_NONE, st)
            ELSE Resp(c1, 0, CONTROL_NONE, st)

\* handle_response_suback
handle_response_suback(c, mt, st, size) ==
    IF mt # CONTROL_SUBSCRIBE THEN Resp(c, -1, mt, st)
    ELSE IF size # 3 THEN Resp(c, -EMSGSIZE, CONTROL_NONE, st)
    ELSE LET c1 == ChanRead(c, size)
         IN IF ~c1.ok THEN Resp(c1, -EIO, CONTROL_NONE, st)
            ELSE IF c1.data[1] # 0 THEN Resp(c1, -1, CONTROL_NONE, st)
            ELSE IF c1.data[2] # 1 THEN Resp(c1, -1, CONTROL_NONE, st)
            ELSE IF c1.data[3] > 2 THEN Resp(c1, -1, CONTROL_NONE, st)
            ELSE Resp(c1, 0, CONTROL_NONE, st)

\* handle_response_unsuback
handle_response_unsuback(c, mt, st, size) ==
    IF mt # CONTROL_UNSUBSCRIBE THEN Resp(c, -1, mt, st)
    ELSE IF size # 2 THEN Resp(c, -EMSGSIZE, CONTROL_NONE, st)
    ELSE LET c1 == ChanRead(c, size)
         IN IF ~c1.ok THEN Resp(c1, -EIO, CONTROL_NONE, st)
            ELSE IF c1.data[1] # 0 THEN Resp(c1, -1, CONTROL_NONE, st)
            ELSE IF c1.data[2] # 2 THEN Resp(c1, -1, CONTROL_NONE, st)
            ELSE Resp(c1, 0, CONTROL_NONE, st)

\* a subtraction that leaves two bytes too many
SizeT_two_more(x) == (x + 2) % 65536

\* size_t arithmetic (a 16-bit size_t)
SizeT(x) == x % 65536

\* no call of the on-publish callback
NoCallback == [called |-> FALSE, topic |-> <<>>, len |-> 0, out |-> <<>>]

\* handle_publish calling on_publish before it writes the acknowledgement
handle_publish_callback_first(c, size, flags, cb_res) ==
    LET c1 == ChanRead(c, 2)
    IN IF ~c1.ok THEN [c |-> c1, res |-> -EIO, cb |-> NoCallback]
       ELSE
       LET topic_size == c1.data[1] * 256 + c1.data[2]
       IN IF topic_size > TOPIC_BUF_SIZE - 1
          THEN [c |-> c1, res |-> -EMSGSIZE, cb |-> NoCallback]
          ELSE
          LET c2 == ChanRead(c1, topic_size)
              topic == c2.data
              qos == (flags \div 2) % 4
              Deliver(cc, payload_size) ==
                  LET c9 == ChanRead(cc, payload_size)
                  IN [c |-> c9,
                      res |-> IF cb_res # 0 THEN -1 ELSE 0,
                      cb |-> [called |-> TRUE, topic |-> topic,
                              len |-> payload_size, out |-> cc.out]]
          IN IF ~c2.ok THEN [c |-> c2, res |-> -EIO, cb |-> NoCallback]
             ELSE IF qos = 0
             THEN Deliver(c2, SizeT(size - topic_size - 2))
             ELSE
             LET c3 == ChanRead(c2, 2)
                 id == c3.data
             IN IF ~c3.ok THEN [c |-> c3, res |-> -EIO, cb |-> NoCallback]
                ELSE
                LET h == IF qos = 1
                         THEN write_fixed_header(c3, MQTT_PUBACK, 0, 2)
                         ELSE IF qos = 2
                         THEN write_fixed_header(c3, MQTT_PUBREC, 0, 2)
                         ELSE [c |-> c3, res |-> -EPROTO]
                IN IF h.res # 0
                   THEN [c |-> h.c, res |-> h.res, cb |-> NoCallback]
                   ELSE
                   LET d == Deliver(c3, SizeT(size - topic_size - 4))
                       c4 == ChanWrite([d.c EXCEPT !.out = h.c.out,
                                                   !.wn = h.c.wn], id)
                   IN IF ~c4.ok
                      THEN [c |-> c4, res |-> -EIO, cb |-> d.cb]
                      ELSE [c |-> c4, res |-> d.res, cb |-> d.cb]

\* handle_publish accepting a topic as long as its buffer, with no room for
\* the terminating 0
handle_publish_topic_128(c, size, flags, cb_res) ==
    LET c1 == ChanRead(c, 2)
    IN IF ~c1.ok THEN [c |-> c1, res |-> -EIO, cb |-> NoCallback]
       ELSE
       LET topic_size == c1.data[1] * 256 + c1.data[2]
       IN IF topic_size > TOPIC_BUF_SIZE
          THEN [c |-> c1, res |-> -EMSGSIZE, cb |-> NoCallback]
          ELSE
          LET c2 == ChanRead(c1, topic_size)
              topic == c2.data
              qos == (flags \div 2) % 4
              Deliver(cc, payload_size) ==
                  LET c9 == ChanRead(cc, payload_size)
                  IN [c |-> c9,
                      res |-> IF cb_res # 0 THEN -1 ELSE 0,
                      cb |-> [called |-> TRUE, topic |-> topic,
                              len |-> payload_size, out |-> cc.out]]
          IN IF ~c2.ok THEN [c |-> c2, res |-> -EIO, cb |-> NoCallback]
             ELSE IF qos = 0
             THEN Deliver(c2, SizeT(size - topic_size - 2))
             ELSE
             LET c3 == ChanRead(c2, 2)
                 id == c3.data
             IN IF ~c3.ok THEN [c |-> c3, res |-> -EIO, cb |-> NoCallback]
                ELSE
                LET h == IF qos = 1
                         THEN write_fixed_header(c3, MQTT_PUBACK, 0, 2)
                         ELSE IF qos = 2
                         THEN write_fixed_header(c3, MQTT_PUBREC, 0, 2)
                         ELSE [c |-> c3, res |-> -EPROTO]
                IN IF h.res # 0
                   THEN [c |-> h.c, res |-> h.res, cb |-> NoCallback]
                   ELSE
                   LET c4 == ChanWrite(h.c, id)
                   IN IF ~c4.ok
                      THEN [c |-> c4, res |-> -EIO, cb |-> NoCallback]
                      ELSE Deliver(c4, SizeT(size - topic_size - 4))

\* handle_publish: [c, res, cb]; cb tells whether on_publish was called, with
\* which topic and payload length, and what had been written by then.  The
\* callback drains payload_size bytes and returns cb_res.
handle_publish(c, size, flags, cb_res) ==
    LET c1 == ChanRead(c, 2)
    IN IF ~c1.ok THEN [c |-> c1, res |-> -EIO, cb |-> NoCallback]
       ELSE
       LET topic_size == c1.data[1] * 256 + c1.data[2]
       IN IF topic_size > TOPIC_BUF_SIZE - 1
          THEN [c |-> c1, res |-> -EMSGSIZE, cb |-> NoCallback]
          ELSE
          LET c2 == ChanRead(c1, topic_size)
              topic == c2.data
              qos == (flags \div 2) % 4
              Deliver(cc, payload_size) ==
                  LET c9 == ChanRead(cc, payload_size)
                  IN [c |-> c9,
                      res |-> IF cb_res # 0 THEN -1 ELSE 0,
                      cb |-> [called |-> TRUE, topic |-> topic,
                              len |-> payload_size, out |-> cc.out]]
          IN IF ~c2.ok THEN [c |-> c2, res |-> -EIO, cb |-> NoCallback]
             ELSE IF qos = 0
             THEN Deliver(c2, SizeT(size - topic_size - 2))
             ELSE
             LET c3 == ChanRead(c2, 2)
                 id == c3.data
             IN IF ~c3.ok THEN [c |-> c3, res |-> -EIO, cb |-> NoCallback]
                ELSE
                LET h == IF qos = 1
                         THEN write_fixed_header(c3, MQTT_PUBACK, 0, 2)
                         ELSE IF qos = 2
                         THEN write_fixed_header(c3, MQTT_PUBREC, 0, 2)
                         ELSE [c |-> c3, res |-> -EPROTO]
                IN IF h.res # 0
                   THEN [c |-> h.c, res |-> h.res, cb |-> NoCallback]
                   ELSE
                   LET c4 == ChanWrite(h.c, id)
                   IN IF ~c4.ok
                      THEN [c |-> c4, res |-> -EIO, cb |-> NoCallback]
                      ELSE Deliver(c4, SizeT(size - topic_size - 4))

(***************************************************************************)
(* read_server_message, the switch on the packet type:                     *)
(*   [c, res, mt, st, type, handler, hres, post, cb]                       *)
(* hres is <<r>> when a handler was dispatched and returned r, post is     *)
(* <<r>> when r is written to the outbound control queue.                  *)
(***************************************************************************)
ServerHandler(type) ==
    CASE type = MQTT_CONNACK -> "connack"
      [] type = MQTT_PUBACK -> "puback"
      [] type = MQTT_SUBACK -> "suback"
      [] type = MQTT_UNSUBACK -> "unsuback"
      [] type = MQTT_PINGRESP -> "pingresp"
      [] type = MQTT_PUBLISH -> "publish"
      [] OTHER -> "none"

\* what read_server_message gives once a response handler has returned r,
\* which it posts on the outbound control queue (lines 906-931)
Posted(h, r) ==
    [c |-> r.c, res |-> r.res, mt |-> r.mt, st |-> r.st, type |-> h.type,
     handler |-> ServerHandler(h.type), hres |-> <<r.res>>,
     post |-> <<r.res>>, cb |-> NoCallback]

\* ... with the result of handle_publish posted as that of an
\* acknowledgement is
Published_posted(h, p, mt, st) ==
    [c |-> p.c, res |-> p.res, mt |-> mt, st |-> st, type |-> h.type,
     handler |-> "publish", hres |-> <<p.res>>, post |-> <<p.res>>,
     cb |-> p.cb]

\* ... and once handle_publish has returned p, which it does not post
Published(h, p, mt, st) ==
    [c |-> p.c, res |-> p.res, mt |-> mt, st |-> st, type |-> h.type,
     handler |-> "publish", hres |-> <<p.res>>, post |-> <<>>, cb |-> p.cb]

\* read_server_message after read_fixed_header has returned h
ServerSwitch(h, mt, st, cb_res) ==
    IF h.res # 0
    THEN [c |-> h.c, res |-> -EIO, mt |-> mt, st |-> st, type |-> h.type,
          handler |-> "none", hres |-> <<>>, post |-> <<>>,
          cb |-> NoCallback]
    ELSE CASE h.type = MQTT_CONNACK ->
                Posted(h, handle_response_connack(h.c, mt, st, h.size))
           [] h.type = MQTT_PUBACK ->
                Posted(h, handle_response_puback(h.c, mt, st, h.size))
           [] h.type = MQTT_SUBACK ->
                Posted(h, handle_response_suback(h.c, mt, st, h.size))
           [] h.type = MQTT_UNSUBACK ->
                Posted(h, handle_response_unsuback(h.c, mt, st, h.size))
           [] h.type = MQTT_PINGRESP ->
                Posted(h, handle_response_ping(h.c, mt, st, h.size))
           [] h.type = MQTT_PUBLISH ->
                Published(h, handle_publish(h.c, h.size, h.flags, cb_res),
                          mt, st)
           [] OTHER ->
                [c |-> h.c, res |-> 0, mt |-> mt, st |-> st, type |-> h.type,
                 handler |-> "none", hres |-> <<>>, post |-> <<>>,
                 cb |-> NoCallback]

read_server_message(c, mt, st, cb_res) ==
    ServerSwitch(read_fixed_header(c), mt, st, cb_res)

(***************************************************************************)
(* read_control_message, the switches on the state and the verb tag: the   *)
(* request handler the tag is dispatched to ("none": the tag is dropped).  *)
(***************************************************************************)
\* the switches with a CONTROL_PING case in the disconnected state as well
ControlHandler_ping_any_state(st, type) ==
    IF st = "disconnected"
    THEN CASE type = CONTROL_CONNECT -> "connect"
           [] type = CONTROL_PING -> "ping"
           [] OTHER -> "none"
    ELSE CASE type = CONTROL_DISCONNECT -> "disconnect"
           [] type = CONTROL_PING -> "ping"
           [] type = CONTROL_PUBLISH -> "publish"
           [] type = CONTROL_SUBSCRIBE -> "subscribe"
           [] type = CONTROL_UNSUBSCRIBE -> "unsubscribe"
           [] OTHER -> "none"

ControlHandler(st, type) ==
    IF st = "disconnected"
    THEN IF type = CONTROL_CONNECT THEN "connect" ELSE "none"
    ELSE CASE type = CONTROL_DISCONNECT -> "disconnect"
           [] type = CONTROL_PING -> "ping"
           [] type = CONTROL_PUBLISH -> "publish"
           [] type = CONTROL_SUBSCRIBE -> "subscribe"
           [] type = CONTROL_UNSUBSCRIBE -> "unsubscribe"
           [] OTHER -> "none"

\* the verb tag a request handler is dispatched for
HandlerTag(handler) ==
    CASE handler = "connect" -> CONTROL_CONNECT
      [] handler = "disconnect" -> CONTROL_DISCONNECT
      [] handler = "ping" -> CONTROL_PING
      [] handler = "publish" -> CONTROL_PUBLISH
      [] handler = "subscribe" -> CONTROL_SUBSCRIBE
      [] handler = "unsubscribe" -> CONTROL_UNSUBSCRIBE

\* the handlers that start with a queue_read of a pointer
TakesParameter(handler) ==
    handler \in {"connect", "publish", "subscribe", "unsubscribe"}

(***************************************************************************)
(* What the application passes to the entry points.                        *)
(***************************************************************************)
\* connection options: all empty; a will topic without a will payload
ConnOptions ==
    { ZeroOptions,
      [ZeroOptions EXCEPT !.will.topic = Str(<<119>>)] }

\* application messages: "a/b" "hi" QoS 0, "a" "x" QoS 1
PublishMessages ==
    { [topic |-> Str(<<97, 47, 98>>), payload |-> Str(<<104, 105>>), qos |-> 0],
      [topic |-> Str(<<97>>), payload |-> Str(<<120>>), qos |-> 1] }

\* "t" QoS 1
SubscribeMessages ==
    { [topic |-> Str(<<116>>), payload |-> EmptyStr, qos |-> 1] }

\* the bytes of the address of a caller's structure: any, here with a first
\* byte that is also a verb tag and further bytes that are none
PtrValues ==
    { [i \in 1..PTR_SIZE |-> IF i = 1 THEN lo ELSE 32] :
        lo \in {CONTROL_CONNECT, CONTROL_PING} }

NullPtr == [i \in 1..PTR_SIZE |-> 0]

\* the structures a caller of the entry point with this tag may pass
Structs(type) ==
    CASE type = CONTROL_CONNECT -> ConnOptions
      [] type = CONTROL_PUBLISH -> PublishMessages
      [] type \in {CONTROL_SUBSCRIBE, CONTROL_UNSUBSCRIBE} -> SubscribeMessages
      [] OTHER -> {}

(***************************************************************************)
(* What the broker sends.                                                  *)
(***************************************************************************)
ConnackOk == <<32, 2, 0, 0>>
PubackOk == <<64, 2, 0, 1>>
SubackOk == <<144, 3, 0, 1, 1>>
UnsubackOk == <<176, 2, 0, 2>>
PingrespOk == <<208, 0>>

Frames ==
    { ConnackOk, PubackOk, SubackOk, UnsubackOk, PingrespOk,
      <<32, 2, 0, 5>>,                 \* connack, connection refused
      <<144, 3, 0, 1, 128>>,           \* suback, failure return code
      <<64, 2, 0, 9>>,                 \* puback, another packet identifier
      <<208, 1, 0>>,                   \* pingresp with a remaining length of 1
      <<208, 128, 128, 128, 128, 1>>,  \* a remaining length of five bytes
      <<80, 2, 0, 1>>,                 \* pubrec
      <<48, 7, 0, 3, 97, 47, 98, 104, 105>>,         \* publish QoS 0
      <<50, 7, 0, 3, 97, 47, 98, 0, 5, 104, 105>> }  \* publish QoS 1

\* the acknowledgement MQTT requires for a request packet written completely
AckFor(handler, arg) ==
    CASE handler = "connect" -> <<ConnackOk>>
      [] handler = "ping" -> <<PingrespOk>>
      [] handler = "publish" -> IF arg.qos = 1 THEN <<PubackOk>> ELSE <<>>
      [] handler = "subscribe" -> <<SubackOk>>
      [] handler = "unsubscribe" -> <<UnsubackOk>>
      [] OTHER -> <<>>

(***************************************************************************)
(* State.                                                                  *)
(***************************************************************************)
VARIABLES
    state,          \* self_p->state
    message_type,   \* self_p->message.type
    transport_in,   \* bytes sent by the broker, not yet read
    transport_out,  \* bytes written to the broker by the iteration that has
                    \* just ended
    control_in,     \* self_p->control.in: the blocked writer and its bytes
    control_out,    \* self_p->control.out: <<r>> while the loop is blocked
                    \* writing r, else <<>>
    loop_pc,        \* "poll", "param", "post" or "read"
    loop_handler,   \* the request handler that is reading its parameter
    loop_req,       \* the task that wrote the tag it was dispatched for
    param_buf,      \* the parameter bytes read so far
    pc,             \* per task: its place in control_routine
    verb,           \* per task: the type its entry point passes
    owner,          \* the task whose request set message.type (0: none)
    broker_owes,    \* acknowledgements the broker has yet to send
    ev,             \* what the loop iteration that has just ended did
                    \* (NoEvent after a step of another task)
    probe,          \* a codec function or handler run on its own: what it
                    \* was given and what it gave (NoProbe in the client)
    qt              \* the queue self-test of tst/sync/queue/main.c: its two
                    \* threads and its two queues (NoQueueTest in the
                    \* client)

vars == <<state, message_type, transport_in, transport_out, control_in,
          control_out, loop_pc, loop_handler, loop_req, param_buf, pc, verb,
          owner, broker_owes, ev, probe, qt>>

\* ev: the loop iteration that has just ended
\*   src       "control" or "server": the channel it served
\*   type      the verb tag or the packet type read
\*   handler   the handler dispatched ("none": none)
\*   hres      <<r>>: the handler returned r
\*   res       what read_control_message or read_server_message returned
\*   post      <<r>>: r was written to the outbound control queue
\*   to        the task whose queue_read took it (0: none), in the entry
\*   to_verb   point of this verb, which returns r
\*   on_error  <<r>>: on_error was called with r
\*   req       the task that wrote the tag the handler was dispatched for
\*   read      the bytes consumed from the transport input
\*   argof, arg, arg_after   the task whose structure the request handler
\*             was given (0: none of a task), the structure before and after
\*   cb        the call of on_publish
NoEvent ==
    [src |-> "none", type |-> 0, handler |-> "none", hres |-> <<>>,
     res |-> 0, post |-> <<>>, to |-> 0, to_verb |-> CONTROL_NONE,
     on_error |-> <<>>, req |-> 0, read |-> <<>>,
     argof |-> 0, arg |-> <<>>, arg_after |-> <<>>, cb |-> NoCallback]

\* no function is run on its own
NoProbe == [op |-> "none", in |-> <<>>, out |-> <<>>]

\* mqtt_client_init
ClientInit ==
    /\ state = "disconnected"
    /\ message_type = CONTROL_NONE
    /\ transport_in = <<>>
    /\ transport_out = <<>>
    /\ control_in = [writer |-> 0, buf |-> <<>>]
    /\ control_out = <<>>
    /\ loop_pc = "poll"
    /\ loop_handler = "none"
    /\ loop_req = 0
    /\ param_buf = <<>>
    /\ pc = [t \in Tasks |-> "idle"]
    /\ verb = [t \in Tasks |-> CONTROL_NONE]
    /\ owner = 0
    /\ broker_owes = <<>>
    /\ ev = NoEvent

\* the queue self-test is not run
NoQueueTest == [run |-> FALSE]

Init == ClientInit /\ probe = NoProbe /\ qt = NoQueueTest

(***************************************************************************)
(* The application entry points.                                           *)
(***************************************************************************)
LoopVars == <<state, message_type, transport_in, control_out, loop_pc,
              loop_handler, loop_req, param_buf, owner, broker_owes>>

\* a step of a task other than the loop: no loop iteration has just ended
NoIteration ==
    /\ ev' = NoEvent
    /\ transport_out' = <<>>
    /\ UNCHANGED <<probe, qt>>

\* control_routine, line 992: queue_write of the type.  The queue is
\* unbuffered: the writer stays blocked until the loop has read its bytes,
\* and one writer is served at a time.
control_routine(t, type) ==
    /\ pc[t] = "idle"
    /\ control_in.writer = 0
    /\ control_in' = [writer |-> t,
                      buf |-> <<[v |-> type, own |-> t, tag |-> TRUE, n |-> 1]>>]
    /\ pc' = [pc EXCEPT ![t] = "write_type"]
    /\ verb' = [verb EXCEPT ![t] = type]
    /\ NoIteration
    /\ UNCHANGED LoopVars

\* The structure an entry point is given is the caller's and does not
\* change during the call unless the loop writes to it; the model draws it
\* where the loop reads it, in ReadParameter.
mqtt_client_connect(t) == control_routine(t, CONTROL_CONNECT)

mqtt_client_disconnect(t) == control_routine(t, CONTROL_DISCONNECT)

mqtt_client_ping(t) == control_routine(t, CONTROL_PING)

mqtt_client_publish(t) == control_routine(t, CONTROL_PUBLISH)

mqtt_client_subscribe(t) == control_routine(t, CONTROL_SUBSCRIBE)

mqtt_client_unsubscribe(t) == control_routine(t, CONTROL_UNSUBSCRIBE)

\* the entry points that pass a parameter (size > 0 in control_routine)
HasParameter(type) ==
    type \in {CONTROL_CONNECT, CONTROL_PUBLISH, CONTROL_SUBSCRIBE,
              CONTROL_UNSUBSCRIBE}

\* control_routine, line 995: queue_write of the parameter, the pointer to
\* the caller's structure (NULL when connect is called without options)
WriteParameter(t) ==
    /\ pc[t] = "parameter"
    /\ control_in.writer = 0
    /\ \E p \in (IF verb[t] = CONTROL_CONNECT THEN PtrValues \cup {NullPtr}
                 ELSE PtrValues) :
          control_in' = [writer |-> t,
                         buf |-> [i \in 1..PTR_SIZE |->
                                    [v |-> p[i], own |-> t, tag |-> FALSE,
                                     n |-> i]]]
    /\ pc' = [pc EXCEPT ![t] = "write_parameter"]
    /\ UNCHANGED verb
    /\ NoIteration
    /\ UNCHANGED LoopVars

(***************************************************************************)
(* The event loop, mqtt_client_main.                                       *)
(***************************************************************************)
Min(a, b) == IF a < b THEN a ELSE b

\* the handler that ended with transport context c made the chan_write
\* that was to fail (wf; 0: none was)
Reached(wf, c) == wf = 0 \/ c.wn >= wf

\* where a writer continues once the loop has read all the bytes of its
\* queue_write: at its next queue_write or at its queue_read of the result
Released(t) ==
    IF pc[t] = "write_type" /\ HasParameter(verb[t]) THEN "parameter"
    ELSE "read"

\* the inbound control queue and the tasks' places after the loop has read
\* the first k bytes of the pending write
AfterRead(k) ==
    LET rest == SubSeq(control_in.buf, k + 1, Len(control_in.buf))
    IN IF rest = <<>>
       THEN [cin |-> [writer |-> 0, buf |-> <<>>],
             pc |-> [pc EXCEPT ![control_in.writer] = Released(control_in.writer)]]
       ELSE [cin |-> [control_in EXCEPT !.buf = rest], pc |-> pc]

\* the tasks a result written to the outbound control queue can go to: one
\* of those blocked in the queue_read of control_routine; 0 when there is
\* none, and the loop blocks in the write
PostTargets(pc1, post) ==
    LET readers == {t \in Tasks : pc1[t] = "read"}
    IN IF post = <<>> \/ readers = {} THEN {0} ELSE readers

\* The end of a loop iteration: the result, if any, goes to a reader of the
\* outbound control queue (chan_write, lines 847 and 906-931), whose entry
\* point returns it, and on_error is called with a non-zero res (lines
\* 1089-1091).
Finish(pc1, cin1, mt1, st1, tin1, out1, own1, owes1, e1) ==
    \E to \in PostTargets(pc1, e1.post) :
       LET blocked == e1.post # <<>> /\ to = 0
       IN /\ pc' = IF to # 0 THEN [pc1 EXCEPT ![to] = "idle"] ELSE pc1
          /\ control_in' = cin1
          /\ control_out' = IF blocked THEN e1.post ELSE <<>>
          /\ loop_pc' = IF blocked THEN "post" ELSE "poll"
          /\ loop_handler' = "none"
          /\ loop_req' = 0
          /\ param_buf' = <<>>
          /\ message_type' = mt1
          /\ state' = st1
          /\ transport_in' = tin1
          /\ transport_out' = out1
          /\ verb' = IF to # 0 THEN [verb EXCEPT ![to] = CONTROL_NONE]
                     ELSE verb
          /\ owner' = own1
          /\ broker_owes' = owes1
          /\ UNCHANGED <<probe, qt>>
          /\ ev' = [e1 EXCEPT !.to = to,
                              !.to_verb = IF to # 0 THEN verb[to]
                                          ELSE CONTROL_NONE,
                              !.on_error = IF ~blocked /\ e1.res # 0
                                           THEN <<e1.res>> ELSE <<>>]

\* the acknowledgements owed after a request handler returned res, for a
\* broker that acknowledges (acks) what MQTT requires it to
Owes(acks, handler, a, res) ==
    IF acks /\ res = 0 /\ Len(broker_owes) < NumTasks + 1
    THEN broker_owes \o AckFor(handler, a)
    ELSE broker_owes

\* read_control_message once handle_control_disconnect has returned r: the
\* result is posted (line 847)
DisconnectIteration(a, e0, r) ==
    Finish(a.pc, a.cin, r.mt, r.st, transport_in, r.c.out, owner, broker_owes,
           [e0 EXCEPT !.hres = <<r.res>>, !.post = <<r.res>>])

\* read_control_message once another request handler has returned r for
\* the request of task req on the structure val: nothing is posted
RequestIteration(a, e0, r, acks, req, val) ==
    Finish(a.pc, a.cin, r.mt, r.st, transport_in, r.c.out,
           IF r.res = 0 THEN req ELSE owner,
           Owes(acks, e0.handler, val, r.res),
           [e0 EXCEPT !.hres = <<r.res>>, !.arg_after = <<r.arg>>])

\* read_control_message: the queue_read of the verb tag and the dispatch.
\* The value it returns is 0 whatever the handler returned (line 876).
ReadControlMessage(WF, acks) ==
    /\ loop_pc = "poll"
    /\ control_in.buf # <<>>
    /\ LET e == Head(control_in.buf)
           a == AfterRead(1)
           handler == ControlHandler(state, e.v)
           e0 == [NoEvent EXCEPT !.src = "control", !.type = e.v,
                                 !.handler = handler, !.req = e.own]
       IN IF TakesParameter(handler)
          THEN /\ loop_pc' = "param"
               /\ loop_handler' = handler
               /\ loop_req' = e.own
               /\ param_buf' = <<>>
               /\ control_in' = a.cin
               /\ pc' = a.pc
               /\ NoIteration
               /\ UNCHANGED <<state, message_type, transport_in, control_out,
                              verb, owner, broker_owes>>
          ELSE IF handler = "disconnect"
          THEN \E wf \in WF :
                  /\ wf <= 1
                  /\ DisconnectIteration(a, e0,
                         handle_control_disconnect(NewCtx(transport_in, wf),
                                                   message_type, state))
          ELSE IF handler = "ping"
          THEN \E wf \in WF :
                  /\ wf <= 1
                  /\ RequestIteration(a, e0,
                         handle_control_ping(NewCtx(transport_in, wf),
                                             message_type, state),
                         acks, e.own, <<>>)
          ELSE Finish(a.pc, a.cin, message_type, state, transport_in, <<>>,
                      owner, broker_owes, e0)

\* What the pointer a request handler has read points to: [task, val], any
\* structure task may have passed (task 0: a structure of no caller).
\* A NULL options_p selects the default options; the pointer a caller wrote
\* for a handler of the same kind points to that caller's structure; any
\* other bytes are no pointer of the program, and what is read through them
\* is arbitrary.
Pointee(got, handler) ==
    LET wild == IF handler = "connect" THEN ConnOptions
                ELSE PublishMessages \cup SubscribeMessages
        t == got[1].own
    IN IF handler = "connect" /\ \A i \in 1..PTR_SIZE : got[i].v = 0
       THEN {[task |-> 0, val |-> ZeroOptions]}
       ELSE IF /\ \A i \in 1..PTR_SIZE :
                    got[i].own = t /\ ~got[i].tag /\ got[i].n = i
               /\ (verb[t] = CONTROL_CONNECT) = (handler = "connect")
       THEN {[task |-> t, val |-> w] : w \in Structs(verb[t])}
       ELSE {[task |-> 0, val |-> w] : w \in wild}

\* the request handler named, run on the structure its parameter points to
RequestHandler(handler, c, mt, st, val) ==
    CASE handler = "connect" -> handle_control_connect(c, mt, st, val)
      [] handler = "publish" -> handle_control_publish(c, mt, st, val)
      [] handler = "subscribe" -> handle_control_subscribe(c, mt, st, val)
      [] handler = "unsubscribe" -> handle_control_unsubscribe(c, mt, st, val)

\* a request handler has returned r on the structure p its parameter
\* points to
ParameterIteration(a, p, acks, wf, r) ==
    /\ Reached(wf, r.c)
    /\ RequestIteration(a, [NoEvent EXCEPT !.src = "control",
                                           !.type = HandlerTag(loop_handler),
                                           !.handler = loop_handler,
                                           !.req = loop_req,
                                           !.argof = p.task,
                                           !.arg = <<p.val>>],
                        r, acks, loop_req, p.val)

\* The queue_read of the parameter at the head of handle_control_connect,
\* _publish, _subscribe and _unsubscribe, and the rest of the handler once
\* the pointer is complete.
ReadParameter(WF, acks) ==
    /\ loop_pc = "param"
    /\ control_in.buf # <<>>
    /\ LET k == Min(PTR_SIZE - Len(param_buf), Len(control_in.buf))
           got == param_buf \o SubSeq(control_in.buf, 1, k)
           a == AfterRead(k)
       IN IF Len(got) < PTR_SIZE
          THEN /\ param_buf' = got
               /\ control_in' = a.cin
               /\ pc' = a.pc
               /\ NoIteration
               /\ UNCHANGED <<state, message_type, transport_in, control_out,
                              loop_pc, loop_handler, loop_req, verb,
                              owner, broker_owes>>
          ELSE \E p \in Pointee(got, loop_handler), wf \in WF :
                  ParameterIteration(a, p, acks, wf,
                      RequestHandler(loop_handler, NewCtx(transport_in, wf),
                                     message_type, state, p.val))

\* read_server_message has returned r, or is blocked in a chan_read
ServerIteration(f, wf, cb_res, r) ==
    /\ Reached(wf, r.c)
    /\ cb_res # 0 => r.cb.called
    /\ IF r.c.starved
       THEN /\ loop_pc' = "read"
            /\ transport_in' = transport_in \o f
            /\ NoIteration
            /\ UNCHANGED <<state, message_type, control_in, control_out,
                           loop_handler, loop_req, param_buf, pc, verb, owner,
                           broker_owes>>
       ELSE Finish(pc, control_in, r.mt, r.st, r.c.tin, r.c.out,
                   IF r.mt = CONTROL_NONE THEN 0 ELSE owner,
                   IF f # <<>> /\ broker_owes # <<>>
                   THEN Tail(broker_owes) ELSE broker_owes,
                   [NoEvent EXCEPT !.src = "server", !.type = r.type,
                                   !.read = SubSeq(transport_in \o f, 1,
                                               Len(transport_in \o f)
                                               - Len(r.c.tin)),
                                   !.handler = r.handler,
                                   !.hres = r.hres, !.res = r.res,
                                   !.post = r.post, !.cb = r.cb])

\* read_server_message on what the broker has sent: the unread bytes and
\* the broker's next frame, if it sends one (any of frames).  A chan_read
\* of the transport input that has not got its bytes leaves the loop
\* blocked in it (loop_pc = "read") until the broker has sent more.
ReadServerMessage(WF, frames) ==
    /\ loop_pc \in {"poll", "read"}
    /\ \E f \in frames \cup {<<>>}, wf \in WF, cb_res \in {0, -1} :
          /\ transport_in \o f # <<>>
          /\ f # <<>> => Len(transport_in) <= MaxBacklog
          /\ ServerIteration(f, wf, cb_res,
                 read_server_message(NewCtx(transport_in \o f, wf),
                                     message_type, state, cb_res))

\* the frames an arbitrary broker may send next
AnyFrame == Frames

\* the frame a broker sends next that only acknowledges, in order, the
\* requests MQTT requires it to acknowledge
OwedFrame == IF broker_owes = <<>> THEN {} ELSE {Head(broker_owes)}

(***************************************************************************)
(* Specifications.                                                         *)
(***************************************************************************)
WriteFailures == 0..MaxFailAt

\* the calls the tasks of T make
Application(T) ==
    \E t \in T :
       \/ mqtt_client_connect(t)
       \/ mqtt_client_disconnect(t)
       \/ mqtt_client_ping(t)
       \/ mqtt_client_publish(t)
       \/ mqtt_client_subscribe(t)
       \/ mqtt_client_unsubscribe(t)
       \/ WriteParameter(t)

\* One application task and an arbitrary environment: the broker sends any
\* frame at any time and any write to the transport may fail.
Next ==
    \/ Application({1})
    \/ ReadControlMessage(WriteFailures, FALSE)
    \/ ReadParameter(WriteFailures, FALSE)
    \/ ReadServerMessage(WriteFailures, AnyFrame)

Spec == Init /\ [][Next]_vars

\* The environment the entry points are written for: no write to the
\* transport fails and the broker sends the acknowledgement of each request
\* packet, in order, and nothing else.
LoopControl == ReadControlMessage({0}, TRUE)

LoopParameter == ReadParameter({0}, TRUE)

LoopServer == ReadServerMessage({0}, OwedFrame)

\* NumTasks application tasks calling concurrently in that environment
ConcurrentNext ==
    \/ Application(Tasks)
    \/ LoopControl
    \/ LoopParameter
    \/ LoopServer

\* The loop runs whenever it has something to read, and a task that has a
\* parameter to write writes it.
Fairness ==
    /\ WF_vars(LoopControl)
    /\ WF_vars(LoopParameter)
    /\ WF_vars(LoopServer)
    /\ \A t \in Tasks : WF_vars(WriteParameter(t))

Concurrent == Init /\ [][ConcurrentNext]_vars /\ Fairness

(***************************************************************************)
(* The codec functions and the handlers run on their own, each on inputs   *)
(* drawn from a set: probe holds the input (in) and then the result (out). *)
(***************************************************************************)
ClientVars == <<state, message_type, transport_in, transport_out, control_in,
                control_out, loop_pc, loop_handler, loop_req, param_buf, pc,
                verb, owner, broker_owes, ev>>

\* remaining lengths at the ends of the ranges that take 1, 2, 3 and 4 bytes
HeaderSizes ==
    {0, 127, 128, 128 * 128 - 1, 128 * 128, 128 * 128 * 128 - 1,
     128 * 128 * 128, 128 * 128 * 128 * 128 - 1}

HeaderInputs ==
    {[op |-> "fixed_header",
      in |-> [type |-> t, flags |-> f, size |-> n], out |-> <<>>] :
        t \in MQTT_CONNECT..MQTT_DISCONNECT, f \in 0..15, n \in HeaderSizes}

\* what write_fixed_header wrote (w) and what read_fixed_header then read (r)
HeaderResult(w, r) ==
    [wres |-> w.res, bytes |-> w.c.out, res |-> r.res, type |-> r.type,
     flags |-> r.flags, size |-> r.size, rest |-> r.c.tin]

\* write_fixed_header, then read_fixed_header on the bytes written
WriteReadHeader ==
    /\ probe.op = "fixed_header"
    /\ probe' = [op |-> "fixed_header_done", in |-> probe.in,
                 out |-> HeaderResult(
                            write_fixed_header(NewCtx(<<>>, 0), probe.in.type,
                                               probe.in.flags, probe.in.size),
                            read_fixed_header(NewCtx(
                                write_fixed_header(NewCtx(<<>>, 0),
                                                   probe.in.type,
                                                   probe.in.flags,
                                                   probe.in.size).c.out, 0)))]
    /\ UNCHANGED <<ClientVars, qt>>

\* an mqtt_string_t with a size and no buffer, and one of 65536 bytes (its
\* bytes are never read)
NullStr == [null |-> TRUE, buf |-> <<>>, size |-> 1]

LongStr == [null |-> FALSE, buf |-> <<>>, size |-> 65536]

\* connection options: each field empty or one character; a user name
\* without buffer, a password that is too long
ConnectInputs ==
    {[op |-> "connect",
      in |-> [client_id |-> ci,
              will |-> [topic |-> wt, payload |-> wp, qos |-> wq],
              user_name |-> un, password |-> pw],
      out |-> <<>>] :
        ci \in {EmptyStr, Str(<<99>>)},
        wt \in {EmptyStr, Str(<<119>>)},
        wp \in {EmptyStr, Str(<<112>>)},
        wq \in 0..2,
        un \in {EmptyStr, Str(<<117>>), NullStr},
        pw \in {EmptyStr, Str(<<115>>), LongStr}}

\* what a request handler returned (r)
RequestResult(r) ==
    [res |-> r.res, bytes |-> r.c.out, mt |-> r.mt, st |-> r.st,
     arg |-> r.arg]

\* handle_control_connect on options, disconnected and nothing in flight
RunConnect ==
    /\ probe.op = "connect"
    /\ probe' = [op |-> "connect_done", in |-> probe.in,
                 out |-> RequestResult(
                            handle_control_connect(NewCtx(<<>>, 0),
                                                   CONTROL_NONE,
                                                   "disconnected", probe.in))]
    /\ UNCHANGED <<ClientVars, qt>>

\* topics of 1, 3, 255, 256 and 300 bytes, and the empty topic
Topics ==
    {EmptyStr, Str(<<97, 47, 98>>)}
    \cup {Str([i \in 1..n |-> 97]) : n \in {1, 255, 256, 300}}

\* application messages: a topic, no payload or "hi", a QoS
MessageInputs ==
    {[op |-> o, in |-> [topic |-> t, payload |-> p, qos |-> q],
      out |-> <<>>] :
        o \in {"publish", "subscribe", "unsubscribe"},
        t \in Topics,
        p \in {EmptyStr, Str(<<104, 105>>)},
        q \in 0..2}

\* handle_control_publish on a message, connected and nothing in flight
RunPublish ==
    /\ probe.op = "publish"
    /\ probe' = [op |-> "publish_done", in |-> probe.in,
                 out |-> RequestResult(
                            handle_control_publish(NewCtx(<<>>, 0),
                                                   CONTROL_NONE, "connected",
                                                   probe.in))]
    /\ UNCHANGED <<ClientVars, qt>>

\* handle_control_subscribe
RunSubscribe ==
    /\ probe.op = "subscribe"
    /\ probe' = [op |-> "subscribe_done", in |-> probe.in,
                 out |-> RequestResult(
                            handle_control_subscribe(NewCtx(<<>>, 0),
                                                     CONTROL_NONE,
                                                     "connected", probe.in))]
    /\ UNCHANGED <<ClientVars, qt>>

\* handle_control_unsubscribe
RunUnsubscribe ==
    /\ probe.op = "unsubscribe"
    /\ probe' = [op |-> "unsubscribe_done", in |-> probe.in,
                 out |-> RequestResult(
                            handle_control_unsubscribe(NewCtx(<<>>, 0),
                                                       CONTROL_NONE,
                                                       "connected",
                                                       probe.in))]
    /\ UNCHANGED <<ClientVars, qt>>

\* the bytes of an inbound publish after its fixed header
PublishBody(topic, flags, id, payload) ==
    <<Len(topic) \div 256, Len(topic) % 256>> \o topic
    \o (IF (flags \div 2) % 4 = 0 THEN <<>> ELSE id) \o payload

\* the remaining length its sender declares for a body: the number of its
\* bytes, or 0, or 7, or two less than the number of its bytes
DeclaredSize(body, d) ==
    CASE d = "exact" -> Len(body)
      [] d = "zero" -> 0
      [] d = "seven" -> 7
      [] OTHER -> Len(body) - 2

\* inbound publishes: topics of 0, 3, 127 and 128 bytes, every QoS and a
\* retain bit, three packet identifiers, no payload or "hi", the remaining
\* lengths of DeclaredSize, and both callback results
InboundPublishes ==
    {[op |-> "handle_publish",
      in |-> [size |-> DeclaredSize(PublishBody(t, f, i, p), d), flags |-> f, topic |-> t, id |-> i, payload |-> p,
              bytes |-> PublishBody(t, f, i, p), cb_res |-> r],
      out |-> <<>>] :
        t \in {<<>>, <<97, 47, 98>>}
               \cup {[k \in 1..m |-> 97] : m \in {127, 128}},
        f \in {0, 1, 2, 4, 6},
        i \in {<<0, 5>>, <<1, 2>>, <<255, 254>>},
        p \in {<<>>, <<104, 105>>},
        d \in {"exact", "zero", "seven", "short"},
        r \in {0, 1}}

\* what handle_publish did: its result, the callback, the bytes written, the
\* bytes left unread, and whether it waits for bytes that were not sent
PublishResult(r) ==
    [res |-> r.res, cb |-> r.cb, bytes |-> r.c.out, rest |-> r.c.tin,
     starved |-> r.c.starved]

\* handle_publish on the bytes of one inbound publish
RunHandlePublish ==
    /\ probe.op = "handle_publish"
    /\ probe' = [op |-> "handle_publish_done", in |-> probe.in,
                 out |-> PublishResult(
                            handle_publish(NewCtx(probe.in.bytes, 0),
                                           probe.in.size, probe.in.flags,
                                           probe.in.cb_res))]
    /\ UNCHANGED <<ClientVars, qt>>

\* the request whose acknowledgement a packet type is
InFlightFor(type) ==
    CASE type = MQTT_CONNACK -> CONTROL_CONNECT
      [] type = MQTT_PUBACK -> CONTROL_PUBLISH
      [] type = MQTT_SUBACK -> CONTROL_SUBSCRIBE
      [] type = MQTT_UNSUBACK -> CONTROL_UNSUBSCRIBE
      [] OTHER -> CONTROL_PING

\* acknowledgements of every kind with a remaining length of 0 to 4 and that
\* many bytes of 0, 1, 2, 3 or 128, with the matching request in flight or
\* none
AckInputs ==
    {[op |-> "ack",
      in |-> [type |-> t, size |-> n, bytes |-> SubSeq(d \o <<0>>, 1, n),
              mt |-> m],
      out |-> <<>>] :
        t \in {MQTT_CONNACK, MQTT_PUBACK, MQTT_SUBACK, MQTT_UNSUBACK,
               MQTT_PINGRESP},
        n \in 0..4,
        d \in [1..3 -> {0, 1, 2, 3, 128}],
        m \in {0, 1}}

\* what read_server_message did with an acknowledgement
AckResult(r) ==
    [res |-> r.res, handler |-> r.handler, hres |-> r.hres, post |-> r.post,
     mt |-> r.mt, st |-> r.st, rest |-> r.c.tin]

\* read_server_message on the frame of one acknowledgement
RunAck ==
    /\ probe.op = "ack"
    /\ probe' = [op |-> "ack_done", in |-> probe.in,
                 out |-> AckResult(
                            read_server_message(
                                NewCtx(<<probe.in.type * 16, probe.in.size>>
                                           \o probe.in.bytes, 0),
                                IF probe.in.mt = 1
                                THEN InFlightFor(probe.in.type)
                                ELSE CONTROL_NONE,
                                IF probe.in.type = MQTT_CONNACK
                                THEN "disconnected" ELSE "connected",
                                0))]
    /\ UNCHANGED <<ClientVars, qt>>

\* the requests without a parameter
PlainInputs ==
    {[op |-> o, in |-> <<>>, out |-> <<>>] : o \in {"ping", "disconnect"}}

\* handle_control_ping, connected and nothing in flight
RunPing ==
    /\ probe.op = "ping"
    /\ probe' = [op |-> "ping_done", in |-> probe.in,
                 out |-> RequestResult(
                            handle_control_ping(NewCtx(<<>>, 0),
                                                CONTROL_NONE, "connected"))]
    /\ UNCHANGED <<ClientVars, qt>>

\* handle_control_disconnect
RunDisconnect ==
    /\ probe.op = "disconnect"
    /\ probe' = [op |-> "disconnect_done", in |-> probe.in,
                 out |-> RequestResult(
                            handle_control_disconnect(NewCtx(<<>>, 0),
                                                      CONTROL_NONE,
                                                      "connected"))]
    /\ UNCHANGED <<ClientVars, qt>>

\* the inbound publishes as frames: the fixed header and the body
PublishFrames == {[p EXCEPT !.op = "publish_frame"] : p \in InboundPublishes}

\* what read_server_message, entered with message.type mt, did with the
\* frame of a publish
FrameResult(r, mt) ==
    [res |-> r.res, handler |-> r.handler, hres |-> r.hres, post |-> r.post,
     mt_before |-> mt, mt |-> r.mt, st |-> r.st, cb |-> r.cb,
     bytes |-> r.c.out, rest |-> r.c.tin, starved |-> r.c.starved]

\* read_server_message on the frame of one inbound publish, connected, with
\* no request, a publish or a subscribe in flight
RunPublishFrame ==
    /\ probe.op = "publish_frame"
    /\ \E mt \in {CONTROL_NONE, CONTROL_PUBLISH, CONTROL_SUBSCRIBE} :
          probe' = [op |-> "publish_frame_done", in |-> probe.in,
                    out |-> FrameResult(
                               read_server_message(
                                   NewCtx(<<MQTT_PUBLISH * 16
                                              + probe.in.flags>>
                                          \o EncodeSize(probe.in.size)
                                          \o probe.in.bytes, 0),
                                   mt, "connected", probe.in.cb_res),
                               mt)]
    /\ UNCHANGED <<ClientVars, qt>>

FunctionInputs ==
    HeaderInputs \cup ConnectInputs \cup MessageInputs \cup InboundPublishes
    \cup AckInputs \cup PlainInputs \cup PublishFrames

FunctionsInit == ClientInit /\ probe \in FunctionInputs /\ qt = NoQueueTest

FunctionsNext ==
    \/ WriteReadHeader
    \/ RunConnect
    \/ RunPublish
    \/ RunSubscribe
    \/ RunUnsubscribe
    \/ RunHandlePublish
    \/ RunAck
    \/ RunPing
    \/ RunDisconnect
    \/ RunPublishFrame

Functions == FunctionsInit /\ [][FunctionsNext]_vars

(***************************************************************************)
(* The queue self-test, tst/sync/queue/main.c: thread t0 writes and the    *)
(* main thread reads and polls.  queue[0] and queue[1] are unbuffered      *)
(* (test_init: queue_init(&queue[i], NULL, 0)): a writer stays in          *)
(* chan_write until readers have taken all it gave, a reader stays in      *)
(* chan_read until it has got all it asked for.  Sizes count ints; b is a  *)
(* buffer of one int, c one of four.                                       *)
(***************************************************************************)
\* t0_main writing 12 to queue[0] before it writes c to queue[1]
T0Program_b_first ==
    << [op |-> "assign", var |-> "b", val |-> <<1>>, line |-> 44],
       [op |-> "write", q |-> 0, var |-> "b", line |-> 45],
       [op |-> "check", var |-> "b", val |-> <<1>>, line |-> 46],
       [op |-> "assign", var |-> "b", val |-> <<2>>, line |-> 47],
       [op |-> "write", q |-> 0, var |-> "b", line |-> 48],
       [op |-> "check", var |-> "b", val |-> <<2>>, line |-> 49],
       [op |-> "assign", var |-> "b", val |-> <<3>>, line |-> 50],
       [op |-> "write", q |-> 0, var |-> "b", line |-> 51],
       [op |-> "check", var |-> "b", val |-> <<3>>, line |-> 52],
       [op |-> "assign", var |-> "c", val |-> <<4, 5, 6, 7>>, line |-> 53],
       [op |-> "write", q |-> 0, var |-> "c", line |-> 57],
       [op |-> "check", var |-> "c", val |-> <<4, 5, 6, 7>>, line |-> 58],
       [op |-> "write", q |-> 0, var |-> "c", line |-> 62],
       [op |-> "check", var |-> "c", val |-> <<4, 5, 6, 7>>, line |-> 63],
       [op |-> "sleep", line |-> 68],
       [op |-> "assign", var |-> "b", val |-> <<12>>, line |-> 78],
       [op |-> "write", q |-> 0, var |-> "b", line |-> 79],
       [op |-> "assign", var |-> "c", val |-> <<8, 9, 10, 11>>, line |-> 71],
       [op |-> "write", q |-> 1, var |-> "c", line |-> 75] >>

\* t0_main, lines 43-79
T0Program ==
    << [op |-> "assign", var |-> "b", val |-> <<1>>, line |-> 44],
       [op |-> "write", q |-> 0, var |-> "b", line |-> 45],
       [op |-> "check", var |-> "b", val |-> <<1>>, line |-> 46],
       [op |-> "assign", var |-> "b", val |-> <<2>>, line |-> 47],
       [op |-> "write", q |-> 0, var |-> "b", line |-> 48],
       [op |-> "check", var |-> "b", val |-> <<2>>, line |-> 49],
       [op |-> "assign", var |-> "b", val |-> <<3>>, line |-> 50],
       [op |-> "write", q |-> 0, var |-> "b", line |-> 51],
       [op |-> "check", var |-> "b", val |-> <<3>>, line |-> 52],
       [op |-> "assign", var |-> "c", val |-> <<4, 5, 6, 7>>, line |-> 53],
       [op |-> "write", q |-> 0, var |-> "c", line |-> 57],
       [op |-> "check", var |-> "c", val |-> <<4, 5, 6, 7>>, line |-> 58],
       [op |-> "write", q |-> 0, var |-> "c", line |-> 62],
       [op |-> "check", var |-> "c", val |-> <<4, 5, 6, 7>>, line |-> 63],
       [op |-> "sleep", line |-> 68],
       [op |-> "assign", var |-> "c", val |-> <<8, 9, 10, 11>>, line |-> 71],
       [op |-> "write", q |-> 1, var |-> "c", line |-> 75],
       [op |-> "assign", var |-> "b", val |-> <<12>>, line |-> 78],
       [op |-> "write", q |-> 0, var |-> "b", line |-> 79] >>

\* test_read_write and test_poll, lines 125-178
MainProgram ==
    << [op |-> "assign", var |-> "b", val |-> <<0>>, line |-> 125],
       [op |-> "read", q |-> 0, var |-> "b", line |-> 126],
       [op |-> "check", var |-> "b", val |-> <<1>>, line |-> 127],
       [op |-> "read", q |-> 0, var |-> "b", line |-> 128],
       [op |-> "check", var |-> "b", val |-> <<2>>, line |-> 129],
       [op |-> "read", q |-> 0, var |-> "b", line |-> 130],
       [op |-> "check", var |-> "b", val |-> <<3>>, line |-> 131],
       [op |-> "read", q |-> 0, var |-> "c", line |-> 132],
       [op |-> "check", var |-> "c", val |-> <<4, 5, 6, 7>>, line |-> 133],
       [op |-> "read", q |-> 0, var |-> "c", line |-> 137],
       [op |-> "check", var |-> "c", val |-> <<4, 5, 6, 7>>, line |-> 138],
       [op |-> "poll", list |-> <<0, 1>>, val |-> 1, line |-> 158],
       [op |-> "read", q |-> 1, var |-> "b", line |-> 159],
       [op |-> "check", var |-> "b", val |-> <<8>>, line |-> 160],
       [op |-> "poll", list |-> <<0, 1>>, val |-> 1, line |-> 162],
       [op |-> "read", q |-> 1, var |-> "b", line |-> 163],
       [op |-> "check", var |-> "b", val |-> <<9>>, line |-> 164],
       [op |-> "poll", list |-> <<0, 1>>, val |-> 1, line |-> 166],
       [op |-> "read", q |-> 1, var |-> "b", line |-> 167],
       [op |-> "check", var |-> "b", val |-> <<10>>, line |-> 168],
       [op |-> "poll", list |-> <<0, 1>>, val |-> 1, line |-> 170],
       [op |-> "read", q |-> 1, var |-> "b", line |-> 171],
       [op |-> "check", var |-> "b", val |-> <<11>>, line |-> 172],
       [op |-> "read", q |-> 0, var |-> "b", line |-> 177],
       [op |-> "check", var |-> "b", val |-> <<12>>, line |-> 178] >>

Threads == {"t0", "main"}

Program(th) == IF th = "t0" THEN T0Program ELSE MainProgram

\* a thread at the start of its code; its buffers hold nothing yet
NewThread ==
    [pc |-> 1, phase |-> "run", b |-> <<0>>, c |-> <<0, 0, 0, 0>>,
     got |-> <<>>]

\* a queue nobody writes to
IdleQueue == [writer |-> FALSE, left |-> <<>>]

\* test_init: the two queues, thread t0 spawned, the main thread about to
\* run test_read_write
QueueTestStart ==
    [run |-> TRUE,
     thread |-> [th \in Threads |-> NewThread],
     queue |-> <<IdleQueue, IdleQueue>>,
     sent |-> <<>>,
     received |-> <<>>,
     failed |-> {}]

\* the instruction a thread is at
Instr(th) == Program(th)[qt.thread[th].pc]

\* a thread that is running, at an instruction op
At(th, op) ==
    /\ qt.run
    /\ qt.thread[th].phase = "run"
    /\ qt.thread[th].pc <= Len(Program(th))
    /\ Instr(th).op = op

\* the buffer var of a thread
Buffer(th, var) == IF var = "b" THEN qt.thread[th].b ELSE qt.thread[th].c

\* a thread with its buffer var set to val
WithBuffer(t, var, val) ==
    IF var = "b" THEN [t EXCEPT !.b = val] ELSE [t EXCEPT !.c = val]

\* BTASSERT(ok), BTASSERTN(ok): the thread goes on when ok holds and leaves
\* its code, the assertion recorded, when it does not
Asserted(q, th, ok, line) ==
    IF ok
    THEN [q EXCEPT !.thread[th].pc = @ + 1, !.thread[th].phase = "run"]
    ELSE [q EXCEPT !.thread[th].phase = "failed",
                   !.failed = @ \cup {line}]

\* queue k has a writer with something left to take
Readable(queue, k) == queue[k + 1].writer /\ queue[k + 1].left # <<>>

\* the first queue of a list that is readable
FirstReadable(queue, list) ==
    list[CHOOSE i \in 1..Len(list) :
            /\ Readable(queue, list[i])
            /\ \A j \in 1..(i - 1) : ~Readable(queue, list[j])]

\* b = ...; c[0] = ...
Assign(th) ==
    /\ At(th, "assign")
    /\ qt' = [qt EXCEPT !.thread[th] =
                 [WithBuffer(@, Instr(th).var, Instr(th).val)
                     EXCEPT !.pc = @ + 1]]
    /\ UNCHANGED <<ClientVars, probe>>

\* BTASSERT(b == ...): a buffer compared with what the test expects in it
Check(th) ==
    /\ At(th, "check")
    /\ qt' = Asserted(qt, th, Buffer(th, Instr(th).var) = Instr(th).val,
                      Instr(th).line)
    /\ UNCHANGED <<ClientVars, probe>>

\* thrd_sleep_us
Sleep(th) ==
    /\ At(th, "sleep")
    /\ qt' = [qt EXCEPT !.thread[th].pc = @ + 1]
    /\ UNCHANGED <<ClientVars, probe>>

\* chan_write, entered: the thread offers its buffer to the queue
WriteBegin(th) ==
    /\ At(th, "write")
    /\ ~qt.queue[Instr(th).q + 1].writer
    /\ qt' = [qt EXCEPT
                 !.thread[th].phase = "writing",
                 !.queue[Instr(th).q + 1] =
                     [writer |-> TRUE, left |-> Buffer(th, Instr(th).var)],
                 !.sent = @ \o Buffer(th, Instr(th).var)]
    /\ UNCHANGED <<ClientVars, probe>>

\* chan_write returns, all it gave taken: BTASSERTN(chan_write(...) ==
\* sizeof(...))
WriteReturn(th) ==
    /\ qt.run
    /\ qt.thread[th].phase = "writing"
    /\ qt.queue[Instr(th).q + 1].left = <<>>
    /\ qt' = Asserted([qt EXCEPT !.queue[Instr(th).q + 1] = IdleQueue],
                      th, TRUE, Instr(th).line)
    /\ UNCHANGED <<ClientVars, probe>>

\* chan_read, entered
ReadBegin(th) ==
    /\ At(th, "read")
    /\ qt' = [qt EXCEPT !.thread[th].phase = "reading",
                        !.thread[th].got = <<>>]
    /\ UNCHANGED <<ClientVars, probe>>

\* the ints a reader that has n and wants want takes from what is left
Taken(left, n, want) ==
    SubSeq(left, 1, IF Len(left) < want - n THEN Len(left) ELSE want - n)

\* chan_read takes what the writer of its queue has left, as far as it
\* needs it
ReadCopy(th) ==
    /\ qt.run
    /\ qt.thread[th].phase = "reading"
    /\ Len(qt.thread[th].got) < Len(Buffer(th, Instr(th).var))
    /\ Readable(qt.queue, Instr(th).q)
    /\ qt' = [qt EXCEPT
                 !.thread[th].got =
                     @ \o Taken(qt.queue[Instr(th).q + 1].left, Len(@),
                                Len(Buffer(th, Instr(th).var))),
                 !.queue[Instr(th).q + 1].left =
                     SubSeq(@, Len(Taken(@, Len(qt.thread[th].got),
                                         Len(Buffer(th, Instr(th).var))))
                               + 1, Len(@)),
                 !.received =
                     @ \o Taken(qt.queue[Instr(th).q + 1].left,
                                Len(qt.thread[th].got),
                                Len(Buffer(th, Instr(th).var)))]
    /\ UNCHANGED <<ClientVars, probe>>

\* chan_read returns with its buffer filled: BTASSERT(chan_read(...) ==
\* sizeof(...))
ReadReturn(th) ==
    /\ qt.run
    /\ qt.thread[th].phase = "reading"
    /\ Len(qt.thread[th].got) = Len(Buffer(th, Instr(th).var))
    /\ qt' = Asserted([qt EXCEPT !.thread[th] =
                          WithBuffer(@, Instr(th).var, qt.thread[th].got)],
                      th, TRUE, Instr(th).line)
    /\ UNCHANGED <<ClientVars, probe>>

\* BTASSERT(chan_list_poll(&list, NULL) == &queue[1]): the poll returns
\* once a queue of the list is readable
Poll(th) ==
    /\ At(th, "poll")
    /\ \E i \in 1..Len(Instr(th).list) : Readable(qt.queue, Instr(th).list[i])
    /\ qt' = Asserted(qt, th,
                      FirstReadable(qt.queue, Instr(th).list) = Instr(th).val,
                      Instr(th).line)
    /\ UNCHANGED <<ClientVars, probe>>

QueueTestInit == ClientInit /\ probe = NoProbe /\ qt = QueueTestStart

QueueTestNext ==
    \E th \in Threads :
        \/ Assign(th)
        \/ Check(th)
        \/ Sleep(th)
        \/ WriteBegin(th)
        \/ WriteReturn(th)
        \/ ReadBegin(th)
        \/ ReadCopy(th)
        \/ ReadReturn(th)
        \/ Poll(th)

QueueTest == QueueTestInit /\ [][QueueTestNext]_vars

(***************************************************************************)
(* Properties.                                                             *)
(***************************************************************************)
\* the request handlers of the request/response verbs
RequestResponse == {"connect", "ping", "publish", "subscribe", "unsubscribe"}

\* C1: every call of an entry point eventually returns to its caller, when
\* no transport write fails, the loop is scheduled fairly and the broker
\* acknowledges every packet MQTT requires it to acknowledge.
C1_EveryCallReturns ==
    \A t \in Tasks : (pc[t] # "idle") ~> (pc[t] = "idle")

\* C2: the connection state changes only from disconnected to connected,
\* when a connack with flags 0 and return code 0 is accepted with connect
\* in flight, and from connected to disconnected, when the disconnect
\* packet has been written.
C2_StateTransitions ==
    [][state' # state =>
         \/ /\ state = "disconnected" /\ state' = "connected"
            /\ message_type = CONTROL_CONNECT
            /\ ev'.src = "server" /\ ev'.handler = "connack"
            /\ ev'.hres = <<0>>
            /\ ev'.read = <<MQTT_CONNACK * 16, 2, 0, CONNECTION_ACCEPTED>>
         \/ /\ state = "connected" /\ state' = "disconnected"
            /\ ev'.src = "control" /\ ev'.handler = "disconnect"
            /\ ev'.hres = <<0>>
            /\ transport_out' = <<MQTT_DISCONNECT * 16, 0>>]_vars

\* a disconnect has been written after a connack had been accepted
C2_Witness ==
    /\ ev.handler = "disconnect" /\ ev.hres = <<0>>
    /\ state = "disconnected"

\* C3: connect returns 0 only in the connected state and disconnect returns
\* 0 only in the disconnected state; the result of handle_control_disconnect
\* is posted in the iteration that ran it, and is non-zero with the state
\* still connected when its write failed.
C3_ReturnMatchesState ==
    /\ (ev.to # 0 /\ ev.to_verb = CONTROL_CONNECT /\ ev.post = <<0>>)
          => state = "connected"
    /\ (ev.to # 0 /\ ev.to_verb = CONTROL_DISCONNECT /\ ev.post = <<0>>)
          => state = "disconnected"
    /\ ev.handler = "disconnect"
          => /\ ev.post = ev.hres
             /\ ev.hres # <<0>> => state = "connected" /\ transport_out = <<>>

\* C4: a protocol error on an inbound frame, with a request in flight and
\* its caller blocked reading the result, leaves the connection state as it
\* was and gives that caller a non-zero result.
C4_ProtocolErrorReported ==
    [][(/\ ev'.src = "server" /\ ev'.res # 0 /\ ev'.handler # "publish"
        /\ message_type # CONTROL_NONE
        /\ \E t \in Tasks : pc[t] = "read")
       => /\ state' = state
          /\ ev'.to # 0
          /\ ev'.post # <<>> /\ ev'.post # <<0>>]_vars

\* C5: a puback from the broker while the client is connected, nothing is
\* in flight and no caller is blocked makes the puback handler return an
\* error, with which on_error is called, and the loop polls again.
C5_UnsolicitedPuback ==
    [][(/\ state = "connected" /\ message_type = CONTROL_NONE
        /\ \A t \in Tasks : pc[t] = "idle"
        /\ ev'.src = "server" /\ ev'.handler = "puback")
       => /\ ev'.hres # <<>> /\ ev'.hres # <<0>>
          /\ ev'.on_error = ev'.hres
          /\ loop_pc' = "poll"]_vars

\* C6: the publish of topic "a/b", payload "hi" with QoS 0 while connected
\* writes 30 07 00 03 'a' '/' 'b' 'h' 'i' and its caller is given 0 without
\* a frame from the broker.
C6_PublishQos0Returns ==
    (/\ ev.src = "control" /\ ev.handler = "publish" /\ ev.hres = <<0>>
     /\ ev.arg = <<[topic |-> Str(<<97, 47, 98>>),
                    payload |-> Str(<<104, 105>>), qos |-> 0]>>)
    => /\ transport_out = <<48, 7, 0, 3, 97, 47, 98, 104, 105>>
       /\ ev.post = <<0>>
       /\ ev.to = ev.req

\* C7: the error a request handler of a request/response verb returns is
\* posted on the outbound control queue and returned by the entry point of
\* the caller.
C7_RequestErrorPosted ==
    (/\ ev.src = "control" /\ ev.handler \in RequestResponse
     /\ ev.hres # <<0>>)
    => /\ ev.post = ev.hres
       /\ ev.to = ev.req

\* C8: on_error has been called with every non-zero value a dispatched
\* handler returned by the time the loop iteration that ran the handler has
\* ended and the loop polls again.
C8_HandlerErrorToOnError ==
    (ev.hres # <<>> /\ ev.hres # <<0>> /\ loop_pc = "poll")
    => ev.on_error = ev.hres

\* C9: a verb tag the current state does not accept (anything but connect
\* while disconnected; connect or an unknown tag while connected) writes
\* nothing to the transport and leaves the connection state and
\* message.type as they were.
C9_IgnoredVerbNoEffect ==
    [][(/\ ev'.src = "control"
        /\ \/ state = "disconnected" /\ ev'.type # CONTROL_CONNECT
           \/ /\ state = "connected"
              /\ ev'.type \notin {CONTROL_DISCONNECT, CONTROL_PING,
                                  CONTROL_PUBLISH, CONTROL_SUBSCRIBE,
                                  CONTROL_UNSUBSCRIBE})
       => /\ transport_out' = <<>>
          /\ state' = state
          /\ message_type' = message_type]_vars

\* a publish was dropped in the disconnected state with a request in flight
C9_Witness ==
    /\ ev.src = "control" /\ ev.handler = "none"
    /\ ev.type = CONTROL_PUBLISH
    /\ state = "disconnected"
    /\ message_type # CONTROL_NONE

\* C10: at most one request is in flight whatever tasks call: the loop
\* writes the packet of a request only while message.type is CONTROL_NONE.
C10_OneInFlight ==
    [][(/\ ev'.src = "control" /\ ev'.handler \in RequestResponse
        /\ ev'.hres = <<0>>)
       => message_type = CONTROL_NONE]_vars

\* C11: read_fixed_header, given the bytes write_fixed_header wrote for a
\* type in 1..14, flags in 0..15 and a remaining length in 0..268435455,
\* succeeds and gives that type, those flags and that length.
C11_HeaderRoundTrip ==
    probe.op = "fixed_header_done"
    => /\ probe.out.wres = 0
       /\ probe.out.res = 0
       /\ probe.out.type = probe.in.type
       /\ probe.out.flags = probe.in.flags
       /\ probe.out.size = probe.in.size
       /\ probe.out.rest = <<>>

\* a length-prefixed field as MQTT 3.1.1 writes it
LengthPrefixed(str) == <<str.size \div 256, str.size % 256>> \o str.buf

\* the payload fields of the connect packet for options o
ExpectedConnectPayload(o) ==
    LengthPrefixed(IF o.client_id.size = 0 THEN Str(DefaultClientId)
                   ELSE o.client_id)
    \o (IF o.will.topic.size > 0 /\ o.will.payload.size > 0
        THEN LengthPrefixed(o.will.topic) \o LengthPrefixed(o.will.payload)
        ELSE <<>>)
    \o (IF o.user_name.size > 0 THEN LengthPrefixed(o.user_name) ELSE <<>>)
    \o (IF o.password.size > 0 THEN LengthPrefixed(o.password) ELSE <<>>)

\* C12: the connect packet is a fixed header of type 1, flags 0 and
\* remaining length 10 + the payload length, the ten variable-header bytes
\* 00 04 'M' 'Q' 'T' 'T' 04 <flags> 01 2C and then the payload fields; with
\* an empty client id and nothing else it is 10 18 00 04 'M' 'Q' 'T' 'T' 04
\* 02 01 2C 00 0A 00 0A "simba_mqtt".
C12_ConnectPacket ==
    (probe.op = "connect_done" /\ probe.out.res = 0)
    => /\ Len(probe.out.bytes) = 12 + Len(ExpectedConnectPayload(probe.in))
       /\ probe.out.bytes[1] = 16
       /\ probe.out.bytes[2] = 10 + Len(ExpectedConnectPayload(probe.in))
       /\ SubSeq(probe.out.bytes, 3, 9) = <<0, 4, 77, 81, 84, 84, 4>>
       /\ SubSeq(probe.out.bytes, 11, 12) = <<1, 44>>
       /\ SubSeq(probe.out.bytes, 13, Len(probe.out.bytes))
            = ExpectedConnectPayload(probe.in)
       /\ probe.in = ZeroOptions
            => probe.out.bytes
                 = <<16, 24, 0, 4, 77, 81, 84, 84, 4, 2, 1, 44, 0, 10, 0, 10>>
                   \o DefaultClientId

\* the number of bytes of the fixed header a packet starts with
FixedHeaderLen(bytes) ==
    CHOOSE i \in 2..Len(bytes) :
        bytes[i] < 128 /\ \A j \in 2..(i - 1) : bytes[j] >= 128

\* the bytes of a packet after its fixed header
Body(bytes) == SubSeq(bytes, FixedHeaderLen(bytes) + 1, Len(bytes))

\* C13: for a topic of 1 to 65535 bytes, publish, subscribe and unsubscribe
\* write the topic as its size in two bytes, high byte first, followed by
\* its bytes: at the head of the variable header of a publish, after the
\* packet identifier of a subscribe or unsubscribe.
C13_TopicLength ==
    (/\ probe.op \in {"publish_done", "subscribe_done", "unsubscribe_done"}
     /\ probe.in.topic.size \in 1..65535
     /\ probe.out.res = 0)
    => LET off == IF probe.op = "publish_done" THEN 0 ELSE 2
       IN SubSeq(Body(probe.out.bytes), off + 1,
                 off + 2 + probe.in.topic.size)
            = LengthPrefixed(probe.in.topic)

\* the QoS of an inbound publish: bits 1 and 2 of its flags
QosOf(flags) == (flags \div 2) % 4

\* the acknowledgement handle_publish owes an inbound publish
ExpectedAck(qos, id) ==
    CASE qos = 1 -> <<64, 2>> \o id
      [] qos = 2 -> <<80, 2>> \o id
      [] OTHER -> <<>>

\* C14: an inbound publish of QoS 1 is answered by 40 02 and one of QoS 2 by
\* 50 02, each followed by the packet identifier as received; these bytes
\* are on the transport when on_publish is called, and on_publish is called
\* for every publish of QoS 0, 1 or 2 with a topic that fits; for QoS 0
\* nothing is written at all.
C14_AckBeforeCallback ==
    (probe.op = "handle_publish_done" /\ QosOf(probe.in.flags) \in 0..2
        /\ Len(probe.in.topic) < TOPIC_BUF_SIZE)
    => /\ probe.out.cb.called
       /\ probe.out.cb.out
            = ExpectedAck(QosOf(probe.in.flags), probe.in.id)
       /\ probe.out.bytes = probe.out.cb.out

C14_Witness ==
    /\ probe.op = "handle_publish_done"
    /\ QosOf(probe.in.flags) = 2
    /\ probe.in.id = <<255, 254>>
    /\ probe.out.cb.called
    /\ probe.out.cb.out = <<80, 2, 255, 254>>

\* the bytes of an inbound publish before its payload: the topic length,
\* the topic and, for QoS 1 and 2, the packet identifier
BeforePayload(in) ==
    Len(in.topic) + (IF QosOf(in.flags) = 0 THEN 2 ELSE 4)

\* the publish 32 07 00 03 'a' '/' 'b' 00 05 'h' 'i'
ExampleFrame ==
    /\ probe.op = "handle_publish_done"
    /\ probe.in.size = 7
    /\ probe.in.flags = 2
    /\ probe.in.bytes = <<0, 3, 97, 47, 98, 0, 5, 104, 105>>

\* C15 as stated: on_publish receives the topic of the frame and a payload
\* length of size - topic.size - 2 (QoS 0) or size - topic.size - 4 (QoS 1
\* and 2); for 32 07 00 03 'a' '/' 'b' 00 05 'h' 'i' it is called with topic
\* "a/b" and payload length 2 after 40 02 00 05 was written.
C15_AsStated ==
    /\ (probe.op = "handle_publish_done" /\ probe.out.cb.called)
        => /\ probe.out.cb.topic = probe.in.topic
           /\ probe.out.cb.len = probe.in.size - BeforePayload(probe.in)
    /\ ExampleFrame
        => /\ probe.out.cb.called
           /\ probe.out.cb.topic = <<97, 47, 98>>
           /\ probe.out.cb.len = 2
           /\ probe.out.cb.out = <<64, 2, 0, 5>>

\* C15, corrected: on_publish receives the topic of the frame and a payload
\* length of size - topic.size - 2 (QoS 0) or size - topic.size - 4 (QoS 1
\* and 2) computed in size_t; for 32 07 00 03 'a' '/' 'b' 00 05 'h' 'i',
\* whose remaining length of 7 ends before the payload, it is called with
\* topic "a/b" and payload length 0 after 40 02 00 05 was written.
C15_PayloadLength ==
    /\ (probe.op = "handle_publish_done" /\ probe.out.cb.called)
        => /\ probe.out.cb.topic = probe.in.topic
           /\ probe.out.cb.len
                = (probe.in.size - BeforePayload(probe.in)) % 65536
    /\ ExampleFrame
        => /\ probe.out.cb.called
           /\ probe.out.cb.topic = <<97, 47, 98>>
           /\ probe.out.cb.len = 0
           /\ probe.out.cb.out = <<64, 2, 0, 5>>

C15_Witness ==
    /\ ExampleFrame
    /\ probe.out.cb.called
    /\ probe.out.cb.len = 0
    /\ probe.out.rest = <<104, 105>>

\* an MQTT string that cannot be sent: empty, without a buffer, or longer
\* than 65535 bytes
InvalidString(str) == str.size = 0 \/ str.null \/ str.size > 65535

\* the connection options with an invalid argument: a will with only one of
\* topic and payload, or a field that is given and cannot be sent
InvalidOptions(o) ==
    \/ (o.will.topic.size = 0) # (o.will.payload.size = 0)
    \/ \E f \in {o.client_id, o.will.topic, o.will.payload,
                  o.user_name, o.password} : f.size > 0 /\ InvalidString(f)

\* C16: a request with an invalid argument (a will with only one of topic
\* and payload, a string that is empty, has no buffer or is longer than
\* 65535 bytes, an empty topic of publish, subscribe or unsubscribe) returns
\* -EINVAL and has written no byte to the transport.
C16_InvalidArgumentFirst ==
    /\ (probe.op = "connect_done" /\ InvalidOptions(probe.in))
        => probe.out.res = -EINVAL /\ probe.out.bytes = <<>>
    /\ (probe.op \in {"publish_done", "subscribe_done", "unsubscribe_done"}
            /\ InvalidString(probe.in.topic))
        => probe.out.res = -EINVAL /\ probe.out.bytes = <<>>

\* C17: the engine leaves the structure a request points to as the caller
\* gave it: after a connect, publish, subscribe or unsubscribe was handled,
\* every field of the options or of the message (also the client_id of
\* options given with an empty client id) has the value it had before.
C17_CallerStructUnchanged ==
    probe.op \in {"connect_done", "publish_done", "subscribe_done",
                  "unsubscribe_done"}
    => probe.out.arg = probe.in

\* the shape an acknowledgement must have
RequiredShape(type, size, bytes) ==
    CASE type = MQTT_CONNACK -> size = 2 /\ bytes = <<0, 0>>
      [] type = MQTT_PUBACK -> size = 2 /\ bytes = <<0, 1>>
      [] type = MQTT_SUBACK ->
            size = 3 /\ SubSeq(bytes, 1, 2) = <<0, 1>> /\ bytes[3] \in 0..2
      [] type = MQTT_UNSUBACK -> size = 2 /\ bytes = <<0, 2>>
      [] OTHER -> size = 0

\* C18: with the matching request in flight, an acknowledgement is given
\* the result 0 exactly when it has the required shape: connack of size 2
\* with 00 00, puback of size 2 with identifier 0001, suback of size 3 with
\* identifier 0001 and a granted QoS of 0, 1 or 2, unsuback of size 2 with
\* identifier 0002, pingresp of size 0; any other size or content is given a
\* result other than 0.
C18_AckShape ==
    (probe.op = "ack_done" /\ probe.in.mt = 1)
    => /\ Len(probe.out.hres) = 1
       /\ probe.out.post = probe.out.hres
       /\ (probe.out.hres[1] = 0)
            <=> RequiredShape(probe.in.type, probe.in.size, probe.in.bytes)

\* a suback whose granted QoS is 0x80 is refused
C18_Witness ==
    /\ probe.op = "ack_done"
    /\ probe.in.mt = 1
    /\ probe.in.type = MQTT_SUBACK
    /\ probe.in.size = 3
    /\ probe.in.bytes = <<0, 1, 128>>
    /\ probe.out.hres = <<-1>>

\* the digit of the remaining length at byte i of a packet
Digit(bytes, i) ==
    IF i <= FixedHeaderLen(bytes) THEN bytes[i] % 128 ELSE 0

\* the remaining length a packet declares in its fixed header
RemainingLength(bytes) ==
    Digit(bytes, 2) + 128 * Digit(bytes, 3) + 128 * 128 * Digit(bytes, 4)
    + 128 * 128 * 128 * Digit(bytes, 5)

\* a packet whose declared remaining length is the number of its bytes
\* after the fixed header
WellFramed(bytes) == RemainingLength(bytes) = Len(Body(bytes))

\* the headers of publish, subscribe and unsubscribe
RequestHeader(op, m, bytes) ==
    CASE op = "publish_done" ->
            /\ bytes[1] = MQTT_PUBLISH * 16 + m.qos * 2
            /\ RemainingLength(bytes)
                 = m.topic.size + 2 + (IF m.qos >= 1 THEN 2 ELSE 0)
                   + m.payload.size
            /\ m.qos >= 1
                => SubSeq(Body(bytes), m.topic.size + 3, m.topic.size + 4)
                     = <<0, 1>>
      [] op = "subscribe_done" ->
            /\ bytes[1] = MQTT_SUBSCRIBE * 16 + 2
            /\ RemainingLength(bytes) = m.topic.size + 5
            /\ SubSeq(Body(bytes), 1, 2) = <<0, 1>>
      [] op = "unsubscribe_done" ->
            /\ bytes[1] = MQTT_UNSUBSCRIBE * 16 + 2
            /\ RemainingLength(bytes) = m.topic.size + 4
            /\ SubSeq(Body(bytes), 1, 2) = <<0, 2>>
      [] OTHER -> TRUE

\* C19: every packet written completely declares as its remaining length
\* the number of bytes written after the fixed header; a publish has the
\* flags qos << 1, the remaining length topic.size + 2 + payload.size, plus
\* 2 for the packet identifier 0001 it carries when the QoS is 1 or 2; a
\* subscribe has the flags 2, the identifier 0001 and the remaining length
\* topic.size + 5; an unsubscribe has the flags 2, the identifier 0002 and
\* the remaining length topic.size + 4.
C19_RemainingLength ==
    /\ (probe.op \in {"connect_done", "publish_done", "subscribe_done",
                       "unsubscribe_done", "ping_done", "disconnect_done"}
            /\ probe.out.res = 0)
        => /\ WellFramed(probe.out.bytes)
           /\ RequestHeader(probe.op, probe.in, probe.out.bytes)
    /\ (probe.op = "handle_publish_done" /\ probe.out.bytes # <<>>)
        => WellFramed(probe.out.bytes)

\* a subscribe to a topic of 300 bytes, whose remaining length takes two
\* bytes
C19_Witness ==
    /\ probe.op = "subscribe_done"
    /\ probe.in.topic.size = 300
    /\ probe.out.res = 0
    /\ SubSeq(probe.out.bytes, 1, 5) = <<130, 177, 2, 0, 1>>
    /\ Len(probe.out.bytes) = 308

\* bit k of a byte
Bit(b, k) == (b \div (2 ^ k)) % 2 = 1

\* the last n bytes of a packet
Tail_n(bytes, n) == SubSeq(bytes, Len(bytes) - n + 1, Len(bytes))

\* C20: in a connect packet the connect-flags byte has the clean-session
\* bit 0x02 set; the will flag 0x04 is set exactly when will topic and will
\* payload are both non-empty, and then bits 3-4 hold the will QoS; the
\* user-name flag 0x80 and the password flag 0x40 are set exactly when the
\* field is non-empty; the packet ends with the fields in the order client
\* id, will topic, will payload, user name, password, each one present
\* exactly when its flag is set.
C20_ConnectFlags ==
    (probe.op = "connect_done" /\ probe.out.res = 0)
    => LET f == Body(probe.out.bytes)[8]
           o == probe.in
           will == o.will.topic.size > 0 /\ o.will.payload.size > 0
       IN /\ Bit(f, 1)
          /\ Bit(f, 2) <=> will
          /\ will => (f \div 8) % 4 = o.will.qos
          /\ Bit(f, 7) <=> o.user_name.size > 0
          /\ Bit(f, 6) <=> o.password.size > 0
          /\ Tail_n(probe.out.bytes, Len(ExpectedConnectPayload(o)))
               = ExpectedConnectPayload(o)

\* a connect with a will of QoS 2, a user name and a password
C20_Witness ==
    /\ probe.op = "connect_done"
    /\ probe.out.res = 0
    /\ probe.in.will.qos = 2
    /\ probe.in.will.topic.size > 0
    /\ probe.in.user_name.size > 0
    /\ probe.in.password.size > 0
    /\ Body(probe.out.bytes)[8] = 214

\* C21: whatever an iteration of the loop writes to the transport, the
\* request packet of a caller or the acknowledgement of an inbound publish,
\* written completely or cut short by a failing write, starts with a byte
\* whose high nibble is a control-packet type of MQTT, 1 to 14.
C21_LegalPacketType ==
    transport_out # <<>>
    => transport_out[1] \div 16 \in MQTT_CONNECT..MQTT_DISCONNECT

\* the loop has answered an inbound publish of QoS 1 with a puback
C21_Witness ==
    /\ ev.src = "server"
    /\ ev.cb.called
    /\ transport_out # <<>>
    /\ transport_out[1] \div 16 = MQTT_PUBACK

\* C22: the iteration that handles an inbound publish, whatever request is
\* in flight, leaves message.type and the state as they were and writes
\* nothing to the outbound control queue, so that no caller returns; when
\* on_publish returns non-zero, the result is passed to on_error.
C22_PublishLeavesRequest ==
    [][(ev'.src = "server" /\ ev'.handler = "publish")
       => /\ message_type' = message_type
          /\ state' = state
          /\ ev'.post = <<>>
          /\ control_out' = <<>>
          /\ ev'.to = 0
          /\ pc' = pc
          /\ (ev'.cb.called /\ ev'.res # 0) => ev'.on_error = <<ev'.res>>]_vars

\* a publish arrives while a caller waits for the result of its request,
\* and on_publish returns non-zero
C22_Witness ==
    /\ ev.src = "server"
    /\ ev.handler = "publish"
    /\ ev.cb.called
    /\ ev.res = -1
    /\ ev.on_error = <<-1>>
    /\ message_type # CONTROL_NONE
    /\ \E t \in Tasks : pc[t] = "read"

\* a is the beginning of b
IsPrefix(a, b) == Len(a) <= Len(b) /\ a = SubSeq(b, 1, Len(a))

\* both threads of the queue self-test have run their code to the end
QueueTestDone ==
    \A th \in Threads : qt.thread[th].pc = Len(Program(th)) + 1

AckHandlerOf(mt) ==
    CASE mt = CONTROL_CONNECT -> "connack"
      [] mt = CONTROL_PING -> "pingresp"
      [] mt = CONTROL_PUBLISH -> "puback"
      [] mt = CONTROL_SUBSCRIBE -> "suback"
      [] mt = CONTROL_UNSUBSCRIBE -> "unsuback"
      [] OTHER -> "none"

\* the request the iteration that has just ended handled is one MQTT
\* acknowledges: any but a publish of QoS 0
Acknowledged(e) == (e.handler = "publish" /\ e.arg # <<>>) => e.arg[1].qos # 0

\* C24: message.type becomes the verb of a request exactly when the packet
\* of the request, one that is acknowledged, has been written completely,
\* and is left as it was when a write fails; it returns to CONTROL_NONE
\* exactly when the acknowledgement that correlates to it is handled; it
\* is therefore not left set by a publish of QoS 0, which has no
\* acknowledgement, nor across a disconnect, after which none can arrive.
C24_InFlightType ==
    [][/\ (ev'.src = "control" /\ ev'.handler \in RequestResponse)
          => message_type'
               = IF ev'.hres = <<0>> /\ Acknowledged(ev')
                 THEN ev'.type ELSE message_type
       /\ (ev'.src = "control" /\ ev'.handler = "disconnect"
              /\ ev'.hres = <<0>>)
          => message_type' = CONTROL_NONE
       /\ ev'.src = "server"
          => IF message_type # CONTROL_NONE
                /\ ev'.handler = AckHandlerOf(message_type)
             THEN message_type' = CONTROL_NONE
             ELSE message_type' = message_type]_vars

\* C25: an inbound publish whose topic length is more than 127 fails with
\* -EMSGSIZE: on_publish is not called, no puback or pubrec is written,
\* nothing is posted, and message.type and the state are as they were.
C25_TopicTooLong ==
    /\ (probe.op = "publish_frame_done" /\ Len(probe.in.topic) > 127)
        => /\ probe.out.res = -EMSGSIZE
           /\ probe.out.hres = <<-EMSGSIZE>>
           /\ ~probe.out.cb.called
           /\ probe.out.bytes = <<>>
           /\ probe.out.post = <<>>
           /\ probe.out.mt = probe.out.mt_before
           /\ probe.out.st = "connected"
    /\ (probe.op = "handle_publish_done" /\ Len(probe.in.topic) > 127)
        => /\ probe.out.res = -EMSGSIZE
           /\ ~probe.out.cb.called
           /\ probe.out.bytes = <<>>

\* a publish of QoS 1 with a topic of 128 bytes, a publish in flight
C25_Witness ==
    /\ probe.op = "publish_frame_done"
    /\ Len(probe.in.topic) = 128
    /\ QosOf(probe.in.flags) = 1
    /\ probe.out.mt_before = CONTROL_PUBLISH
    /\ probe.out.res = -EMSGSIZE

\* the bytes of the parameter a request handler has read when its
\* queue_read returns
ParameterRead ==
    param_buf \o SubSeq(control_in.buf, 1, PTR_SIZE - Len(param_buf))

\* C26: the inbound control queue is read as the callers wrote it, in pairs
\* of a verb tag and a parameter: the byte read_control_message takes for a
\* verb tag was written as a tag by a caller, and the parameter a request
\* handler reads is, byte for byte, the one the caller of that tag wrote;
\* also after a verb was ignored and with several callers.
C26_ControlAligned ==
    [][/\ (loop_pc = "poll" /\ control_in.buf # <<>>
              /\ control_in' # control_in)
          => Head(control_in.buf).tag
       /\ (loop_pc = "param" /\ loop_pc' # "param")
          => \A i \in 1..PTR_SIZE :
                /\ ~ParameterRead[i].tag
                /\ ParameterRead[i].own = loop_req
                /\ ParameterRead[i].n = i]_vars

\* C27: a result the loop writes to the outbound control queue always has
\* a caller waiting to read it: the results posted and not yet read are
\* never more than the entry-point calls waiting for their result, and the
\* loop is never left blocked in the write.
C27_PostHasReader ==
    /\ Len(control_out) <= Cardinality({t \in Tasks : pc[t] = "read"})
    /\ loop_pc # "post"

\* C28: once the loop has handled an inbound frame whose fixed header it
\* could read, whatever the packet type and whether or not the handler
\* succeeded, it has consumed the fixed header and the bytes of the
\* remaining length the header declares, no more and no fewer (on_publish
\* draining the payload length it is given).
C28_FrameConsumed ==
    (ev.src = "server" /\ ~(ev.handler = "none" /\ ev.res = -EIO))
    => Len(ev.read) = FixedHeaderLen(ev.read) + RemainingLength(ev.read)

\* C29: the payload length on_publish is given is never larger than the
\* remaining length of the frame: a remaining length smaller than the topic
\* length, the topic and the packet identifier take does not wrap the
\* unsigned subtraction around.
C29_PayloadLengthBounded ==
    (probe.op \in {"handle_publish_done", "publish_frame_done"}
        /\ probe.out.cb.called)
    => probe.out.cb.len <= probe.in.size

====
